---------------------------- MODULE Spec2Model ----------------------------
(***************************************************************************)
(* Model of the tool layer of the Issue-to-PR agent.  tools/git.ts: the     *)
(* command executor, the workspace resolver, the repository verifier, the  *)
(* safety policy and the nine git/shell tools built from them.             *)
(* tools/github.ts: the reference parsers and the tools fetch_github_issue,*)
(* create_pull_request and fetch_pr_details over the REST API.             *)
(*                                                                         *)
(* Spec runs the git/shell tools, SpecClone the clone workflow with        *)
(* repositories of any name, SpecGitHub the GitHub tools, SpecTools the    *)
(* git/shell tools and the GitHub tools together, as main.ts registers     *)
(* them.                                                                   *)
(*                                                                         *)
(* Strings are sequences of one-character strings, so that includes,       *)
(* startsWith, trim, toLowerCase, split and replace are computed the way   *)
(* the JavaScript string methods compute them.  An optional argument is a  *)
(* sequence of at most one string: <<>> when absent, <<s>> when given.     *)
(***************************************************************************)
EXTENDS Naturals, Integers, Sequences, FiniteSets, TLC

VARIABLES workingDirectory, dirs, repos, lastCall, cloned

vars == <<workingDirectory, dirs, repos, lastCall, cloned>>

(***************************************************************************)
(* String literals of the source and of the environment.                   *)
(***************************************************************************)
\* String values of the source and of the tool arguments.
str ==
    [main |->
        <<"m", "a", "i", "n">>,
     master |->
        <<"m", "a", "s", "t", "e", "r">>,
     develop |->
        <<"d", "e", "v", "e", "l", "o", "p">>,
     production |->
        <<"p", "r", "o", "d", "u", "c", "t", "i", "o", "n">>,
     Main |->
        <<"M", "a", "i", "n">>,
     feature |->
        <<"f", "i", "x", "/", "i", "s", "s", "u", "e", "-", "7">>,
     mainline |->
        <<"m", "a", "i", "n", "l", "i", "n", "e">>,
     w |->
        <<"/", "w">>,
     srv |->
        <<"/", "s", "r", "v">>,
     issues_workspace |->
        <<"i", "s", "s", "u", "e", "s", "_", "w", "o", "r", "k", "s", "p",
          "a", "c", "e">>,
     utils |->
        <<"u", "t", "i", "l", "s">>,
     x |->
        <<"x">>,
     repo |->
        <<"r", "e", "p", "o">>,
     dotgit |->
        <<".", "g", "i", "t">>,
     slash |->
        <<"/">>,
     nl |->
        <<"\n">>,
     dot |->
        <<".">>,
     rm_rf_root |->
        <<"r", "m", " ", "-", "r", "f", " ", "/">>,
     sudo |->
        <<"s", "u", "d", "o">>,
     mkfs |->
        <<"m", "k", "f", "s">>,
     dd_if |->
        <<"d", "d", " ", "i", "f", "=">>,
     to_dev |->
        <<">", " ", "/", "d", "e", "v", "/">>,
     did_not_match_any |->
        <<"d", "i", "d", " ", "n", "o", "t", " ", "m", "a", "t", "c", "h",
          " ", "a", "n", "y">>,
     url_bob |->
        <<"h", "t", "t", "p", "s", ":", "/", "/", "g", "i", "t", "h", "u",
          "b", ".", "c", "o", "m", "/", "b", "o", "b", "/", "u", "t", "i",
          "l", "s">>,
     url_alice |->
        <<"h", "t", "t", "p", "s", ":", "/", "/", "g", "i", "t", "h", "u",
          "b", ".", "c", "o", "m", "/", "a", "l", "i", "c", "e", "/", "u",
          "t", "i", "l", "s">>,
     bob_utils |->
        <<"b", "o", "b", "/", "u", "t", "i", "l", "s">>,
     alice_utils |->
        <<"a", "l", "i", "c", "e", "/", "u", "t", "i", "l", "s">>,
     github |->
        <<"g", "i", "t", "h", "u", "b", ".", "c", "o", "m">>,
     url_bob_git |->
        <<"h", "t", "t", "p", "s", ":", "/", "/", "g", "i", "t", "h", "u",
          "b", ".", "c", "o", "m", "/", "b", "o", "b", "/", "u", "t", "i",
          "l", "s", ".", "g", "i", "t">>,
     url_pages |->
        <<"h", "t", "t", "p", "s", ":", "/", "/", "g", "i", "t", "h", "u",
          "b", ".", "c", "o", "m", "/", "b", "o", "b", "/", "b", "o", "b",
          ".", "g", "i", "t", "h", "u", "b", ".", "i", "o">>,
     url_iw_tools |->
        <<"h", "t", "t", "p", "s", ":", "/", "/", "g", "i", "t", "h", "u",
          "b", ".", "c", "o", "m", "/", "b", "o", "b", "/", "i", "s", "s",
          "u", "e", "s", "_", "w", "o", "r", "k", "s", "p", "a", "c", "e",
          "_", "t", "o", "o", "l", "s">>,
     bob_github_io |->
        <<"b", "o", "b", ".", "g", "i", "t", "h", "u", "b", ".", "i", "o">>,
     issues_workspace_tools |->
        <<"i", "s", "s", "u", "e", "s", "_", "w", "o", "r", "k", "s", "p",
          "a", "c", "e", "_", "t", "o", "o", "l", "s">>,
     a_ts |->
        <<"a", ".", "t", "s">>,
     fix_issue |->
        <<"F", "i", "x", " ", "i", "s", "s", "u", "e">>]

\* Words of the command lines the tools build.
word ==
    [git |->
        <<"g", "i", "t">>,
     remote |->
        <<"r", "e", "m", "o", "t", "e">>,
     get_url |->
        <<"g", "e", "t", "-", "u", "r", "l">>,
     origin |->
        <<"o", "r", "i", "g", "i", "n">>,
     status |->
        <<"s", "t", "a", "t", "u", "s">>,
     porcelain |->
        <<"-", "-", "p", "o", "r", "c", "e", "l", "a", "i", "n">>,
     branch |->
        <<"b", "r", "a", "n", "c", "h">>,
     show_current |->
        <<"-", "-", "s", "h", "o", "w", "-", "c", "u", "r", "r", "e", "n",
          "t">>,
     fetch |->
        <<"f", "e", "t", "c", "h">>,
     checkout |->
        <<"c", "h", "e", "c", "k", "o", "u", "t">>,
     b |->
        <<"-", "b">>,
     add |->
        <<"a", "d", "d">>,
     commit |->
        <<"c", "o", "m", "m", "i", "t">>,
     m |->
        <<"-", "m">>,
     push |->
        <<"p", "u", "s", "h">>,
     u |->
        <<"-", "u">>,
     clone |->
        <<"c", "l", "o", "n", "e">>,
     mkdir |->
        <<"m", "k", "d", "i", "r">>,
     p |->
        <<"-", "p">>,
     test |->
        <<"t", "e", "s", "t">>,
     d |->
        <<"-", "d">>,
     f |->
        <<"-", "f">>,
     sh |->
        <<"s", "h">>,
     c |->
        <<"-", "c">>]

\* Texts the tools return.
msg ==
    [Error |->
        <<"E", "r", "r", "o", "r", ":", " ">>,
     not_a_repo |->
        <<"N", "o", "t", " ", "a", " ", "g", "i", "t", " ", "r", "e", "p",
          "o", "s", "i", "t", "o", "r", "y", " ", "o", "r", " ", "n", "o",
          " ", "r", "e", "m", "o", "t", "e", " ", "c", "o", "n", "f", "i",
          "g", "u", "r", "e", "d">>,
     expected_repo |->
        <<"E", "x", "p", "e", "c", "t", "e", "d", " ", "r", "e", "p", "o",
          " ", "'">>,
     but_found |->
        <<"'", " ", "b", "u", "t", " ", "f", "o", "u", "n", "d", " ", "'">>,
     quote |->
        <<"'">>,
     cannot_push |->
        <<"C", "a", "n", "n", "o", "t", " ", "p", "u", "s", "h", " ", "d",
          "i", "r", "e", "c", "t", "l", "y", " ", "t", "o", " ", "'">>,
     create_feature |->
        <<"'", ".", " ", "C", "r", "e", "a", "t", "e", " ", "a", " ", "f",
          "e", "a", "t", "u", "r", "e", " ", "b", "r", "a", "n", "c", "h",
          " ", "f", "i", "r", "s", "t", " ", "u", "s", "i", "n", "g", " ",
          "g", "i", "t", "_", "c", "r", "e", "a", "t", "e", "_", "b", "r",
          "a", "n", "c", "h", ",", " ", "t", "h", "e", "n", " ", "p", "u",
          "s", "h", " ", "a", "n", "d", " ", "c", "r", "e", "a", "t", "e",
          " ", "a", " ", "p", "u", "l", "l", " ", "r", "e", "q", "u", "e",
          "s", "t", ".">>,
     switched |->
        <<"S", "w", "i", "t", "c", "h", "e", "d", " ", "t", "o", " ", "b",
          "r", "a", "n", "c", "h", ":", " ">>,
     created |->
        <<"C", "r", "e", "a", "t", "e", "d", " ", "a", "n", "d", " ", "s",
          "w", "i", "t", "c", "h", "e", "d", " ", "t", "o", " ", "b", "r",
          "a", "n", "c", "h", ":", " ">>,
     staged |->
        <<"S", "t", "a", "g", "e", "d", " ", "f", "i", "l", "e", "s", ":",
          " ">>,
     comma |->
        <<",", " ">>,
     committed |->
        <<"C", "h", "a", "n", "g", "e", "s", " ", "c", "o", "m", "m", "i",
          "t", "t", "e", "d", " ", "s", "u", "c", "c", "e", "s", "s", "f",
          "u", "l", "l", "y", ":", "\n">>,
     pushed |->
        <<"P", "u", "s", "h", "e", "d", " ", "b", "r", "a", "n", "c", "h",
          " ", "'">>,
     to_remote |->
        <<"'", " ", "t", "o", " ", "r", "e", "m", "o", "t", "e", "\n">>,
     not_allowed |->
        <<"E", "r", "r", "o", "r", ":", " ", "T", "h", "i", "s", " ", "c",
          "o", "m", "m", "a", "n", "d", " ", "i", "s", " ", "n", "o", "t",
          " ", "a", "l", "l", "o", "w", "e", "d", " ", "f", "o", "r", " ",
          "s", "a", "f", "e", "t", "y", " ", "r", "e", "a", "s", "o", "n",
          "s", ".">>,
     no_test |->
        <<"N", "o", " ", "t", "e", "s", "t", " ", "c", "o", "m", "m", "a",
          "n", "d", " ", "f", "o", "u", "n", "d", ".", " ", "P", "l", "e",
          "a", "s", "e", " ", "s", "p", "e", "c", "i", "f", "y", " ", "a",
          " ", "t", "e", "s", "t", "_", "c", "o", "m", "m", "a", "n", "d",
          " ", "o", "r", " ", "e", "n", "s", "u", "r", "e", " ", "t", "h",
          "e", " ", "p", "r", "o", "j", "e", "c", "t", " ", "h", "a", "s",
          " ", "a", " ", "s", "t", "a", "n", "d", "a", "r", "d", " ", "t",
          "e", "s", "t", " ", "c", "o", "n", "f", "i", "g", "u", "r", "a",
          "t", "i", "o", "n", ".">>,
     passed |->
        <<"A", "l", "l", " ", "t", "e", "s", "t", "s", " ", "p", "a", "s",
          "s", "e", "d", "!">>,
     failed |->
        <<"S", "o", "m", "e", " ", "t", "e", "s", "t", "s", " ", "f", "a",
          "i", "l", "e", "d", ".", " ", "P", "l", "e", "a", "s", "e", " ",
          "f", "i", "x", " ", "b", "e", "f", "o", "r", "e", " ", "c", "o",
          "m", "m", "i", "t", "t", "i", "n", "g", ".">>,
     error_fetching_issue |->
        <<"E", "r", "r", "o", "r", " ", "f", "e", "t", "c", "h", "i", "n",
          "g", " ", "i", "s", "s", "u", "e", ":", " ">>,
     error_creating_pr |->
        <<"E", "r", "r", "o", "r", " ", "c", "r", "e", "a", "t", "i", "n",
          "g", " ", "P", "R", ":", " ">>,
     error_fetching_pr |->
        <<"E", "r", "r", "o", "r", " ", "f", "e", "t", "c", "h", "i", "n",
          "g", " ", "P", "R", ":", " ">>,
     invalid_issue |->
        <<"I", "n", "v", "a", "l", "i", "d", " ", "i", "s", "s", "u", "e",
          " ", "U", "R", "L", " ", "f", "o", "r", "m", "a", "t", ":", " ">>,
     expected_issue |->
        <<".", " ", "E", "x", "p", "e", "c", "t", "e", "d", " ", "f", "o",
          "r", "m", "a", "t", ":", " ", "h", "t", "t", "p", "s", ":", "/",
          "/", "g", "i", "t", "h", "u", "b", ".", "c", "o", "m", "/", "o",
          "w", "n", "e", "r", "/", "r", "e", "p", "o", "/", "i", "s", "s",
          "u", "e", "s", "/", "1", "2", "3", " ", "o", "r", " ", "o", "w",
          "n", "e", "r", "/", "r", "e", "p", "o", "#", "1", "2", "3">>,
     invalid_pr |->
        <<"I", "n", "v", "a", "l", "i", "d", " ", "P", "R", " ", "U", "R",
          "L", " ", "f", "o", "r", "m", "a", "t", ":", " ">>,
     expected_pr |->
        <<".", " ", "E", "x", "p", "e", "c", "t", "e", "d", " ", "f", "o",
          "r", "m", "a", "t", ":", " ", "h", "t", "t", "p", "s", ":", "/",
          "/", "g", "i", "t", "h", "u", "b", ".", "c", "o", "m", "/", "o",
          "w", "n", "e", "r", "/", "r", "e", "p", "o", "/", "p", "u", "l",
          "l", "/", "1", "2", "3">>]

\* Error texts of the commands and of a failed spawn.
errtext ==
    [not_found |->
        <<"N", "o", "t", "F", "o", "u", "n", "d", ":", " ", "N", "o", " ",
          "s", "u", "c", "h", " ", "f", "i", "l", "e", " ", "o", "r", " ",
          "d", "i", "r", "e", "c", "t", "o", "r", "y", " ", "(", "o", "s",
          " ", "e", "r", "r", "o", "r", " ", "2", ")">>,
     fatal_not_repo |->
        <<"f", "a", "t", "a", "l", ":", " ", "n", "o", "t", " ", "a", " ",
          "g", "i", "t", " ", "r", "e", "p", "o", "s", "i", "t", "o", "r",
          "y", " ", "(", "o", "r", " ", "a", "n", "y", " ", "o", "f", " ",
          "t", "h", "e", " ", "p", "a", "r", "e", "n", "t", " ", "d", "i",
          "r", "e", "c", "t", "o", "r", "i", "e", "s", ")", ":", " ", ".",
          "g", "i", "t">>,
     pathspec |->
        <<"e", "r", "r", "o", "r", ":", " ", "p", "a", "t", "h", "s", "p",
          "e", "c", " ", "d", "i", "d", " ", "n", "o", "t", " ", "m", "a",
          "t", "c", "h", " ", "a", "n", "y", " ", "f", "i", "l", "e", "(",
          "s", ")", " ", "k", "n", "o", "w", "n", " ", "t", "o", " ", "g",
          "i", "t">>,
     dirty |->
        <<"e", "r", "r", "o", "r", ":", " ", "Y", "o", "u", "r", " ", "l",
          "o", "c", "a", "l", " ", "c", "h", "a", "n", "g", "e", "s", " ",
          "w", "o", "u", "l", "d", " ", "b", "e", " ", "o", "v", "e", "r",
          "w", "r", "i", "t", "t", "e", "n", " ", "b", "y", " ", "c", "h",
          "e", "c", "k", "o", "u", "t">>,
     not_commit |->
        <<"f", "a", "t", "a", "l", ":", " ", "n", "o", "t", " ", "a", " ",
          "c", "o", "m", "m", "i", "t", " ", "a", "n", "d", " ", "a", " ",
          "b", "r", "a", "n", "c", "h", " ", "c", "a", "n", "n", "o", "t",
          " ", "b", "e", " ", "c", "r", "e", "a", "t", "e", "d", " ", "f",
          "r", "o", "m", " ", "i", "t">>,
     exists |->
        <<"f", "a", "t", "a", "l", ":", " ", "a", " ", "b", "r", "a", "n",
          "c", "h", " ", "w", "i", "t", "h", " ", "t", "h", "a", "t", " ",
          "n", "a", "m", "e", " ", "a", "l", "r", "e", "a", "d", "y", " ",
          "e", "x", "i", "s", "t", "s">>,
     nothing |->
        <<"n", "o", "t", "h", "i", "n", "g", " ", "t", "o", " ", "c", "o",
          "m", "m", "i", "t", ",", " ", "w", "o", "r", "k", "i", "n", "g",
          " ", "t", "r", "e", "e", " ", "c", "l", "e", "a", "n">>,
     network |->
        <<"f", "a", "t", "a", "l", ":", " ", "u", "n", "a", "b", "l", "e",
          " ", "t", "o", " ", "a", "c", "c", "e", "s", "s", " ", "t", "h",
          "e", " ", "r", "e", "m", "o", "t", "e">>,
     shell |->
        <<"s", "h", ":", " ", "c", "o", "m", "m", "a", "n", "d", " ", "f",
          "a", "i", "l", "e", "d">>,
     detached |->
        <<"f", "a", "t", "a", "l", ":", " ", "Y", "o", "u", " ", "a", "r",
          "e", " ", "n", "o", "t", " ", "c", "u", "r", "r", "e", "n", "t",
          "l", "y", " ", "o", "n", " ", "a", " ", "b", "r", "a", "n", "c",
          "h", ".">>,
     fetch |->
        <<"T", "y", "p", "e", "E", "r", "r", "o", "r", ":", " ", "e", "r",
          "r", "o", "r", " ", "s", "e", "n", "d", "i", "n", "g", " ", "r",
          "e", "q", "u", "e", "s", "t">>]

\* Output texts of the commands.
outtext ==
    [commit |->
        <<"1", " ", "f", "i", "l", "e", " ", "c", "h", "a", "n", "g", "e",
          "d">>,
     push |->
        <<"T", "o", " ", "o", "r", "i", "g", "i", "n">>,
     porcelain_staged |->
        <<"A", " ", " ", "a", ".", "t", "s", "\n">>]

\* Marker files of the test-command detection.
marker ==
    [package_json |->
        <<"p", "a", "c", "k", "a", "g", "e", ".", "j", "s", "o", "n">>,
     deno_json |->
        <<"d", "e", "n", "o", ".", "j", "s", "o", "n">>,
     cargo_toml |->
        <<"C", "a", "r", "g", "o", ".", "t", "o", "m", "l">>,
     go_mod |->
        <<"g", "o", ".", "m", "o", "d">>,
     pytest_ini |->
        <<"p", "y", "t", "e", "s", "t", ".", "i", "n", "i">>,
     setup_py |->
        <<"s", "e", "t", "u", "p", ".", "p", "y">>]

\* Test commands of the test-command detection.
testcmd ==
    [npm |->
        <<"n", "p", "m", " ", "t", "e", "s", "t">>,
     deno |->
        <<"d", "e", "n", "o", " ", "t", "e", "s", "t">>,
     cargo |->
        <<"c", "a", "r", "g", "o", " ", "t", "e", "s", "t">>,
     go |->
        <<"g", "o", " ", "t", "e", "s", "t", " ", ".", "/", ".", ".", ".">>,
     pytest |->
        <<"p", "y", "t", "e", "s", "t">>,
     python |->
        <<"p", "y", "t", "h", "o", "n", " ", "-", "m", " ", "p", "y", "t",
          "e", "s", "t">>]

\* Shell commands given to run_shell and run_tests.
shcmd ==
    [ls |->
        <<"l", "s">>,
     sudo_ls |->
        <<"s", "u", "d", "o", " ", "l", "s">>,
     pseudo |->
        <<"e", "c", "h", "o", " ", "p", "s", "e", "u", "d", "o", "c", "o",
          "d", "e">>,
     visudo |->
        <<"v", "i", "s", "u", "d", "o", " ", "-", "c">>,
     rm_root |->
        <<"r", "m", " ", "-", "r", "f", " ", "/", "w">>,
     mkfs |->
        <<"m", "k", "f", "s", ".", "e", "x", "t", "4", " ", "i", "m", "g">>,
     dd |->
        <<"d", "d", " ", "i", "f", "=", "i", "m", "g", " ", "o", "f", "=",
          "o", "u", "t">>,
     dev |->
        <<"e", "c", "h", "o", " ", "1", " ", ">", " ", "/", "d", "e", "v",
          "/", "s", "d", "a">>,
     rm_r |->
        <<"r", "m", " ", "-", "r", " ">>,
     push_main |->
        <<"g", "i", "t", " ", "p", "u", "s", "h", " ", "o", "r", "i", "g",
          "i", "n", " ", "H", "E", "A", "D", ":", "m", "a", "i", "n">>]

\* Words of the GitHub URLs and requests.
gh ==
    [api |->
        <<"h", "t", "t", "p", "s", ":", "/", "/", "a", "p", "i", ".", "g",
          "i", "t", "h", "u", "b", ".", "c", "o", "m">>,
     repos |->
        <<"/", "r", "e", "p", "o", "s", "/">>,
     issues |->
        <<"/", "i", "s", "s", "u", "e", "s", "/">>,
     comments |->
        <<"/", "c", "o", "m", "m", "e", "n", "t", "s">>,
     pulls |->
        <<"/", "p", "u", "l", "l", "s">>,
     pulls_n |->
        <<"/", "p", "u", "l", "l", "s", "/">>,
     host |->
        <<"g", "i", "t", "h", "u", "b", ".", "c", "o", "m", "/">>,
     pull |->
        <<"/", "p", "u", "l", "l", "/">>,
     hash |->
        <<"#">>,
     GET |->
        <<"G", "E", "T">>,
     POST |->
        <<"P", "O", "S", "T">>,
     https |->
        <<"h", "t", "t", "p", "s", ":", "/", "/">>]

\* Body texts of the GitHub API error responses.
bodytext ==
    [not_found |->
        <<"{", "\"", "m", "e", "s", "s", "a", "g", "e", "\"", ":", "\"", "N",
          "o", "t", " ", "F", "o", "u", "n", "d", "\"", "}">>,
     rate_limit |->
        <<"{", "\"", "m", "e", "s", "s", "a", "g", "e", "\"", ":", "\"", "A",
          "P", "I", " ", "r", "a", "t", "e", " ", "l", "i", "m", "i", "t",
          " ", "e", "x", "c", "e", "e", "d", "e", "d", "\"", "}">>,
     validation |->
        <<" ", "{", "\"", "m", "e", "s", "s", "a", "g", "e", "\"", ":", "\"",
          "V", "a", "l", "i", "d", "a", "t", "i", "o", "n", " ", "F", "a",
          "i", "l", "e", "d", "\"", "}", "\n">>]

\* Issue and pull request references, and their parts.
ref ==
    [issue_url |->
        <<"h", "t", "t", "p", "s", ":", "/", "/", "g", "i", "t", "h", "u",
          "b", ".", "c", "o", "m", "/", "b", "o", "b", "/", "u", "t", "i",
          "l", "s", "/", "i", "s", "s", "u", "e", "s", "/", "7">>,
     issue_short |->
        <<"b", "o", "b", "/", "u", "t", "i", "l", "s", "#", "7">>,
     pr_url |->
        <<"h", "t", "t", "p", "s", ":", "/", "/", "g", "i", "t", "h", "u",
          "b", ".", "c", "o", "m", "/", "b", "o", "b", "/", "u", "t", "i",
          "l", "s", "/", "p", "u", "l", "l", "/", "1", "2">>,
     pr_short |->
        <<"b", "o", "b", "/", "u", "t", "i", "l", "s", "#", "1", "2">>,
     issue_in_text |->
        <<"s", "e", "e", " ", "h", "t", "t", "p", ":", "/", "/", "w", "w",
          "w", ".", "g", "i", "t", "h", "u", "b", ".", "c", "o", "m", "/",
          "b", "o", "b", "/", "u", "t", "i", "l", "s", "/", "i", "s", "s",
          "u", "e", "s", "/", "7", "/", "f", "i", "l", "e", "s", " ", "n",
          "o", "w">>,
     two_hosts |->
        <<"g", "i", "t", "h", "u", "b", ".", "c", "o", "m", "/", "g", "i",
          "t", "h", "u", "b", ".", "c", "o", "m", "/", "b", "o", "b", "/",
          "u", "t", "i", "l", "s", "/", "i", "s", "s", "u", "e", "s", "/",
          "7">>,
     no_number |->
        <<"h", "t", "t", "p", "s", ":", "/", "/", "g", "i", "t", "h", "u",
          "b", ".", "c", "o", "m", "/", "b", "o", "b", "/", "u", "t", "i",
          "l", "s", "/", "i", "s", "s", "u", "e", "s", "/">>,
     no_repo |->
        <<"h", "t", "t", "p", "s", ":", "/", "/", "g", "i", "t", "h", "u",
          "b", ".", "c", "o", "m", "/", "b", "o", "b", "/", "i", "s", "s",
          "u", "e", "s", "/", "7">>,
     plain |->
        <<"b", "o", "b", "/", "u", "t", "i", "l", "s">>,
     trailing |->
        <<"b", "o", "b", "/", "u", "t", "i", "l", "s", "#", "7", "a">>,
     nested |->
        <<"b", "o", "b", "/", "u", "t", "i", "l", "s", "/", "s", "r", "c",
          "#", "7">>,
     no_owner |->
        <<"/", "u", "t", "i", "l", "s", "#", "7">>,
     no_digits |->
        <<"b", "o", "b", "/", "u", "t", "i", "l", "s", "#">>,
     other_host |->
        <<"h", "t", "t", "p", "s", ":", "/", "/", "g", "i", "t", "l", "a",
          "b", ".", "c", "o", "m", "/", "b", "o", "b", "/", "u", "t", "i",
          "l", "s", "/", "i", "s", "s", "u", "e", "s", "/", "7">>,
     bob |->
        <<"b", "o", "b">>,
     a_b |->
        <<"a", "-", "b">>,
     utils |->
        <<"u", "t", "i", "l", "s">>,
     my_repo |->
        <<"m", "y", ".", "r", "e", "p", "o">>,
     n7 |->
        <<"7">>,
     n12 |->
        <<"1", "2">>,
     n007 |->
        <<"0", "0", "7">>,
     fmt_issue |->
        <<"h", "t", "t", "p", "s", ":", "/", "/", "g", "i", "t", "h", "u",
          "b", ".", "c", "o", "m", "/", "o", "w", "n", "e", "r", "/", "r",
          "e", "p", "o", "/", "i", "s", "s", "u", "e", "s", "/", "1", "2",
          "3">>,
     fmt_short |->
        <<"o", "w", "n", "e", "r", "/", "r", "e", "p", "o", "#", "1", "2",
          "3">>,
     fmt_pr |->
        <<"h", "t", "t", "p", "s", ":", "/", "/", "g", "i", "t", "h", "u",
          "b", ".", "c", "o", "m", "/", "o", "w", "n", "e", "r", "/", "r",
          "e", "p", "o", "/", "p", "u", "l", "l", "/", "1", "2", "3">>]


(***************************************************************************)
(* JavaScript string methods.                                              *)
(***************************************************************************)
None == <<>>

Some(s) == <<s>>

\* JavaScript truthiness of an optional string: absent and "" are falsy.
Truthy(opt) == opt # <<>> /\ opt[1] # <<>>

Includes(s, sub) ==
    \E i \in 0..(Len(s) - Len(sub)) : SubSeq(s, i + 1, i + Len(sub)) = sub

StartsWith(s, p) == Len(p) <= Len(s) /\ SubSeq(s, 1, Len(p)) = p

\* 1-based position of the first occurrence of sub in s, 0 when there is none.
IndexOf(s, sub) ==
    IF Includes(s, sub)
    THEN CHOOSE i \in 1..(Len(s) - Len(sub) + 1) :
            /\ SubSeq(s, i, i + Len(sub) - 1) = sub
            /\ \A j \in 1..(i - 1) : SubSeq(s, j, j + Len(sub) - 1) # sub
    ELSE 0

\* s.replace(pat, rep) with a string pattern: the first occurrence only.
Replace(s, pat, rep) ==
    LET i == IndexOf(s, pat)
    IN  IF i = 0 THEN s
        ELSE SubSeq(s, 1, i - 1) \o rep \o SubSeq(s, i + Len(pat), Len(s))

\* s.split(sep).pop() for a one-character separator: the text after the
\* last separator, the whole of s when it holds none.
SplitPop(s, sep) ==
    LET cuts == {i \in 1..Len(s) : s[i] = sep}
        last == IF cuts = {} THEN 0
                ELSE CHOOSE i \in cuts : \A j \in cuts : j <= i
    IN  SubSeq(s, last + 1, Len(s))

WhiteSpace == {" ", "\n", "\t", "\r"}

Trim(s) ==
    LET keep == {i \in 1..Len(s) : s[i] \notin WhiteSpace}
    IN  IF keep = {} THEN <<>>
        ELSE SubSeq(s, CHOOSE i \in keep : \A j \in keep : i <= j,
                       CHOOSE i \in keep : \A j \in keep : j <= i)

UpperCase ==
    <<"A", "B", "C", "D", "E", "F", "G", "H", "I", "J", "K", "L", "M",
      "N", "O", "P", "Q", "R", "S", "T", "U", "V", "W", "X", "Y", "Z">>

LowerCase ==
    <<"a", "b", "c", "d", "e", "f", "g", "h", "i", "j", "k", "l", "m",
      "n", "o", "p", "q", "r", "s", "t", "u", "v", "w", "x", "y", "z">>

ToLowerCase(s) ==
    [i \in 1..Len(s) |->
        IF \E k \in 1..26 : UpperCase[k] = s[i]
        THEN LowerCase[CHOOSE k \in 1..26 : UpperCase[k] = s[i]]
        ELSE s[i]]

\* array.includes(x) and array.some(p) over a sequence.
ArrayIncludes(arr, x) == \E i \in 1..Len(arr) : arr[i] = x

\* The lines of s: s.split("\n").
RECURSIVE SplitLines(_)
SplitLines(s) ==
    LET i == IndexOf(s, str.nl)
    IN  IF i = 0 THEN <<s>>
        ELSE <<SubSeq(s, 1, i - 1)>> \o SplitLines(SubSeq(s, i + 1, Len(s)))

\* s.substring(a, b) with 0-based bounds clamped to the length of s.
Substring(s, a, b) ==
    LET lo == IF a > Len(s) THEN Len(s) ELSE a
        hi == IF b > Len(s) THEN Len(s) ELSE b
    IN  SubSeq(s, lo + 1, hi)

(***************************************************************************)
(* Command executor.  A process outcome is what Deno.Command gives: either *)
(* it throws (thrown, with the error text) or it exits with a code and its *)
(* two output streams.                                                     *)
(***************************************************************************)
Thrown(err) == [thrown |-> TRUE, code |-> 1, stdout |-> <<>>, stderr |-> err]

Exited(code, out, err) ==
    [thrown |-> FALSE, code |-> code, stdout |-> out, stderr |-> err]

runCommand_exitIgnored(p) ==
    IF p.thrown
    THEN [success |-> FALSE, stdout |-> <<>>, stderr |-> p.stderr]
    ELSE [success |-> TRUE, stdout |-> p.stdout, stderr |-> p.stderr]

runCommand(p) ==
    IF p.thrown
    THEN [success |-> FALSE, stdout |-> <<>>, stderr |-> p.stderr]
    ELSE [success |-> p.code = 0, stdout |-> p.stdout, stderr |-> p.stderr]

(***************************************************************************)
(* Workspace resolver.                                                     *)
(***************************************************************************)
resolveWorkDir_flat(base, repoPath) ==
    IF Truthy(repoPath)
    THEN IF StartsWith(repoPath[1], str.slash)
            \/ StartsWith(repoPath[1], str.issues_workspace)
         THEN IF StartsWith(repoPath[1], str.slash) THEN repoPath[1]
              ELSE base \o str.slash \o repoPath[1]
         ELSE base \o str.slash \o repoPath[1]
    ELSE base

resolveWorkDir_joined(base, repoPath) ==
    IF Truthy(repoPath)
    THEN IF StartsWith(repoPath[1], str.slash)
            \/ StartsWith(repoPath[1], str.issues_workspace)
         THEN base \o str.slash \o repoPath[1]
         ELSE base \o str.slash \o str.issues_workspace \o str.slash \o repoPath[1]
    ELSE base

resolveWorkDir(base, repoPath) ==
    IF Truthy(repoPath)
    THEN IF StartsWith(repoPath[1], str.slash)
            \/ StartsWith(repoPath[1], str.issues_workspace)
         THEN IF StartsWith(repoPath[1], str.slash)
              THEN repoPath[1]
              ELSE base \o str.slash \o repoPath[1]
         ELSE base \o str.slash \o str.issues_workspace \o str.slash \o repoPath[1]
    ELSE base

(***************************************************************************)
(* The environment the commands run in: the directories that exist and,    *)
(* for each directory that is a git work tree, its origin URL, the branch  *)
(* checked out (<<>> when HEAD is detached), whether changes are staged    *)
(* and whether it holds commits                                            *)
(* that were not pushed.  Each proc_* operator is the outcome of spawning  *)
(* one command in directory cwd; Deno.Command throws when cwd is missing.  *)
(***************************************************************************)
IsRepo(d) == d \in DOMAIN repos

Spawn(cwd, p) == IF cwd \in dirs THEN p ELSE Thrown(errtext.not_found)

proc_remote_get_url(cwd) ==
    Spawn(cwd, IF IsRepo(cwd)
               THEN Exited(0, repos[cwd].origin \o str.nl, <<>>)
               ELSE Exited(128, <<>>, errtext.fatal_not_repo))

proc_branch_show_current(cwd) ==
    Spawn(cwd, IF IsRepo(cwd)
               THEN Exited(0, IF repos[cwd].branch # <<>>
                              THEN repos[cwd].branch \o str.nl
                              ELSE <<>>, <<>>)
               ELSE Exited(128, <<>>, errtext.fatal_not_repo))

proc_status_porcelain(cwd) ==
    Spawn(cwd, IF IsRepo(cwd)
               THEN Exited(0, IF repos[cwd].staged THEN outtext.porcelain_staged
                              ELSE <<>>, <<>>)
               ELSE Exited(128, <<>>, errtext.fatal_not_repo))

proc_test_d_missing(cwd, path, ds) == Spawn(cwd, Exited(1, <<>>, <<>>))

proc_test_d(cwd, path, ds) ==
    Spawn(cwd, Exited(IF path \in ds THEN 0 ELSE 1, <<>>, <<>>))

\* The directory d and everything below it.
Under(d) == {e \in dirs : e = d \/ StartsWith(e, d \o str.slash)}

Restrict(f, S) == [d \in (DOMAIN f) \cap S |-> f[d]]

Argv(cmd, cwd) == [cmd |-> cmd, cwd |-> cwd]

(***************************************************************************)
(* Repository verifier.                                                    *)
(***************************************************************************)
verifyRepo_equals(cwd, expectedRepo) ==
    LET result == runCommand(proc_remote_get_url(cwd))
        actualRemote == Trim(result.stdout)
    IN  IF ~result.success
        THEN [valid |-> FALSE, actual |-> None, error |-> msg.not_a_repo]
        ELSE IF Truthy(expectedRepo) /\ actualRemote # expectedRepo[1]
        THEN [valid |-> FALSE, actual |-> Some(actualRemote),
              error |-> msg.expected_repo \o expectedRepo[1] \o msg.but_found
                        \o actualRemote \o msg.quote]
        ELSE [valid |-> TRUE, actual |-> Some(actualRemote), error |-> <<>>]

verifyRepo_unchecked(cwd, expectedRepo) ==
    LET result == runCommand(proc_remote_get_url(cwd))
        actualRemote == Trim(result.stdout)
    IN  IF ~result.success /\ Truthy(expectedRepo)
        THEN [valid |-> FALSE, actual |-> None, error |-> msg.not_a_repo]
        ELSE IF Truthy(expectedRepo)
                /\ ~Includes(actualRemote, expectedRepo[1])
        THEN [valid |-> FALSE, actual |-> Some(actualRemote),
              error |-> msg.expected_repo \o expectedRepo[1] \o msg.but_found
                        \o actualRemote \o msg.quote]
        ELSE [valid |-> TRUE, actual |-> Some(actualRemote), error |-> <<>>]

verifyRepo(cwd, expectedRepo) ==
    LET result == runCommand(proc_remote_get_url(cwd))
        actualRemote == Trim(result.stdout)
    IN  IF ~result.success
        THEN [valid |-> FALSE, actual |-> None, error |-> msg.not_a_repo]
        ELSE IF Truthy(expectedRepo)
                /\ ~Includes(actualRemote, expectedRepo[1])
        THEN [valid |-> FALSE, actual |-> Some(actualRemote),
              error |-> msg.expected_repo \o expectedRepo[1] \o msg.but_found
                        \o actualRemote \o msg.quote]
        ELSE [valid |-> TRUE, actual |-> Some(actualRemote), error |-> <<>>]

Verification_always(cwd, expected_repo) ==
    LET v == verifyRepo(cwd, expected_repo)
    IN  [ran |-> TRUE, failed |-> ~v.valid, valid |-> v.valid,
         error |-> v.error,
         cmds |-> <<Argv(<<word.git, word.remote, word.get_url, word.origin>>, cwd)>>]

Verification_ignored(cwd, expected_repo) ==
    [ran |-> Truthy(expected_repo), failed |-> FALSE,
     valid |-> Truthy(expected_repo), error |-> <<>>,
     cmds |-> IF Truthy(expected_repo)
              THEN <<Argv(<<word.git, word.remote, word.get_url, word.origin>>, cwd)>>
              ELSE <<>>]

\* The opening of six tools: `if (expected_repo) { verifyRepo ... }`.
\* ran tells whether the origin query was issued, failed whether the tool
\* returns the verification error.
Verification(cwd, expected_repo) ==
    IF Truthy(expected_repo)
    THEN LET v == verifyRepo(cwd, expected_repo)
         IN  [ran |-> TRUE, failed |-> ~v.valid, valid |-> v.valid,
              error |-> v.error,
              cmds |-> <<Argv(<<word.git, word.remote, word.get_url, word.origin>>, cwd)>>]
    ELSE [ran |-> FALSE, failed |-> FALSE, valid |-> FALSE, error |-> <<>>,
          cmds |-> <<>>]

(***************************************************************************)
(* Safety policy constants.                                                *)
(***************************************************************************)
protectedBranches == <<str.main, str.master, str.develop, str.production>>

dangerous_short == <<str.rm_rf_root, str.mkfs, str.dd_if, str.to_dev>>

dangerous == <<str.rm_rf_root, str.sudo, str.mkfs, str.dd_if, str.to_dev>>

(***************************************************************************)
(* Inputs the agent may pass to the tools.  A target is the pair of        *)
(* repo_path and expected_repo arguments of one call.                      *)
(***************************************************************************)
Bases == {str.w, str.srv}

RepoUrls == {str.url_bob, str.url_alice}

Directories == {None, Some(str.x)}

p_utils_rel == str.issues_workspace \o str.slash \o str.utils

p_utils_abs == str.w \o str.slash \o str.issues_workspace \o str.slash \o str.utils

RepoPaths == {None, Some(str.utils), Some(p_utils_rel), Some(p_utils_abs)}

ExpectedRepos == {None, Some(<<>>), Some(str.bob_utils), Some(str.alice_utils)}

Target(repo_path, expected_repo) ==
    [repo_path |-> repo_path, expected_repo |-> expected_repo]

Targets ==
    {Target(None, None), Target(None, Some(str.bob_utils)),
     Target(Some(str.utils), None), Target(Some(str.utils), Some(str.bob_utils)),
     Target(Some(str.utils), Some(str.alice_utils)),
     Target(Some(p_utils_abs), Some(<<>>)),
     Target(Some(p_utils_rel), Some(str.bob_utils))}

ShellPaths == {None, Some(str.utils), Some(p_utils_abs)}

BranchNames ==
    {str.main, str.master, str.develop, str.production, str.Main, str.feature}

NewBranchNames == {str.feature, str.mainline, str.main}

ShellCommands ==
    {shcmd.ls, shcmd.sudo_ls, shcmd.pseudo, shcmd.visudo, shcmd.rm_root,
     shcmd.mkfs, shcmd.dd, shcmd.dev, shcmd.push_main,
     shcmd.rm_r \o p_utils_rel, shcmd.rm_r \o p_utils_abs}

\* The network matters to the commands that use it only.
Net(command) == IF command = shcmd.push_main THEN BOOLEAN ELSE {TRUE}

(***************************************************************************)
(* A tool invocation, as recorded for the properties: the tool, its        *)
(* arguments, the directory it resolved, the commands it executed in       *)
(* order, the text or JSON object it returned, the branch that received a  *)
(* push, and whether the files or repositories on disk changed.            *)
(***************************************************************************)
Text(s) == [isJson |-> FALSE, text |-> s, obj |-> <<>>]

Json(o) == [isJson |-> TRUE, text |-> <<>>, obj |-> o]

IsError(r) == ~r.isJson /\ StartsWith(r.text, msg.Error)

Call(tool, repo_path, expected_repo, args, cwd, v, cmds, result, pushedTo, changed) ==
    [tool |-> tool, repo_path |-> repo_path, expected_repo |-> expected_repo,
     args |-> args, cwd |-> cwd, verification |-> v,
     cmds |-> cmds, result |-> result, pushedTo |-> pushedTo,
     changed |-> changed]

NoVerification ==
    [ran |-> FALSE, failed |-> FALSE, valid |-> FALSE, error |-> <<>>]

VerificationOf(v) ==
    [ran |-> v.ran, failed |-> v.failed, valid |-> v.valid,
     error |-> v.error]

\* No tool is running and no result is waiting for the agent.
NoCall ==
    Call("none", None, None, <<>>, <<>>, NoVerification, <<>>, Text(<<>>),
         None, FALSE)

Idle == lastCall.tool = "none"

Init ==
    /\ workingDirectory = str.w
    /\ dirs = {workingDirectory}
    /\ repos = [d \in {} |-> 0]
    /\ cloned = {}
    /\ lastCall = NoCall

\* Whether the argv list holds a command `git <sub> ...`.
Ran(cmds, sub) ==
    \E i \in 1..Len(cmds) :
        /\ Len(cmds[i].cmd) >= 2
        /\ cmds[i].cmd[1] = word.git
        /\ cmds[i].cmd[2] = sub

(***************************************************************************)
(* git_push                                                                *)
(***************************************************************************)
IsProtected_caseSensitive(branch) == ArrayIncludes(protectedBranches, branch)

IsProtected(branch) == ArrayIncludes(protectedBranches, ToLowerCase(branch))

\* `git push [-u origin <branch>]` in cwd: it succeeds only in a work tree
\* and only when the network (net) lets it.
proc_push(cwd, net) ==
    Spawn(cwd, IF ~IsRepo(cwd) THEN Exited(128, <<>>, errtext.fatal_not_repo)
               ELSE IF repos[cwd].branch = <<>>
               THEN Exited(128, <<>>, errtext.detached)
               ELSE IF net
               THEN Exited(0, <<>>, outtext.push)
               ELSE Exited(1, <<>>, errtext.network))

gitPush_branchChecked(set_upstream, repo_path, expected_repo, net) ==
    LET cwd == resolveWorkDir(workingDirectory, repo_path)
        v == Verification(cwd, expected_repo)
        branchResult == runCommand(proc_branch_show_current(cwd))
        branch == Trim(branchResult.stdout)
        branchCmd == Argv(<<word.git, word.branch, word.show_current>>, cwd)
        args == <<word.git, word.push>>
                \o (IF set_upstream THEN <<word.u, word.origin, branch>> ELSE <<>>)
        result == runCommand(proc_push(cwd, net))
        call(cmds, res, pushedTo, changed) ==
            Call("git_push", repo_path, expected_repo,
                 [set_upstream |-> set_upstream], cwd, VerificationOf(v),
                 cmds, res, pushedTo, changed)
    IN  IF v.failed
        THEN /\ lastCall' = call(v.cmds, Text(msg.Error \o v.error), None, FALSE)
             /\ UNCHANGED <<workingDirectory, dirs, repos, cloned>>
        ELSE IF ~branchResult.success \/ branch = <<>>
        THEN /\ lastCall' = call(v.cmds \o <<branchCmd>>,
                                 Text(msg.Error \o branchResult.stderr), None,
                                 FALSE)
             /\ UNCHANGED <<workingDirectory, dirs, repos, cloned>>
        ELSE IF IsProtected(branch)
        THEN /\ lastCall' = call(v.cmds \o <<branchCmd>>,
                                 Text(msg.Error \o msg.cannot_push \o branch
                                      \o msg.create_feature), None, FALSE)
             /\ UNCHANGED <<workingDirectory, dirs, repos, cloned>>
        ELSE IF ~result.success
        THEN /\ lastCall' = call(v.cmds \o <<branchCmd, Argv(args, cwd)>>,
                                 Text(msg.Error \o result.stderr), None, FALSE)
             /\ UNCHANGED <<workingDirectory, dirs, repos, cloned>>
        ELSE /\ lastCall' = call(v.cmds \o <<branchCmd, Argv(args, cwd)>>,
                                 Text(msg.pushed \o branch \o msg.to_remote
                                      \o (IF result.stdout # <<>>
                                          THEN result.stdout
                                          ELSE result.stderr)),
                                 Some(repos[cwd].branch), FALSE)
             /\ UNCHANGED <<workingDirectory, dirs, repos, cloned>>

gitPush(set_upstream, repo_path, expected_repo, net) ==
    LET cwd == resolveWorkDir(workingDirectory, repo_path)
        v == Verification(cwd, expected_repo)
        branchResult == runCommand(proc_branch_show_current(cwd))
        branch == Trim(branchResult.stdout)
        branchCmd == Argv(<<word.git, word.branch, word.show_current>>, cwd)
        args == <<word.git, word.push>>
                \o (IF set_upstream THEN <<word.u, word.origin, branch>> ELSE <<>>)
        result == runCommand(proc_push(cwd, net))
        call(cmds, res, pushedTo, changed) ==
            Call("git_push", repo_path, expected_repo,
                 [set_upstream |-> set_upstream], cwd, VerificationOf(v),
                 cmds, res, pushedTo, changed)
    IN  IF v.failed
        THEN /\ lastCall' = call(v.cmds, Text(msg.Error \o v.error), None, FALSE)
             /\ UNCHANGED <<workingDirectory, dirs, repos, cloned>>
        ELSE IF IsProtected(branch)
        THEN /\ lastCall' = call(v.cmds \o <<branchCmd>>,
                                 Text(msg.Error \o msg.cannot_push \o branch
                                      \o msg.create_feature), None, FALSE)
             /\ UNCHANGED <<workingDirectory, dirs, repos, cloned>>
        ELSE IF ~result.success
        THEN /\ lastCall' = call(v.cmds \o <<branchCmd, Argv(args, cwd)>>,
                                 Text(msg.Error \o result.stderr), None, FALSE)
             /\ UNCHANGED <<workingDirectory, dirs, repos, cloned>>
        ELSE /\ lastCall' = call(v.cmds \o <<branchCmd, Argv(args, cwd)>>,
                                 Text(msg.pushed \o branch \o msg.to_remote
                                      \o (IF result.stdout # <<>>
                                          THEN result.stdout
                                          ELSE result.stderr)),
                                 Some(repos[cwd].branch), FALSE)
             /\ UNCHANGED <<workingDirectory, dirs, repos, cloned>>

(***************************************************************************)
(* git_clone                                                               *)
(***************************************************************************)
\* directory || repo_url.split("/").pop()?.replace(".git", "") || "repo"
repoNameOf(repo_url, directory) ==
    IF Truthy(directory) THEN directory[1]
    ELSE LET name == Replace(SplitPop(repo_url, "/"), str.dotgit, <<>>)
         IN  IF name # <<>> THEN name ELSE str.repo

\* `git clone <url> <target>`: the network (net) decides whether it succeeds.
proc_clone(cwd, net) ==
    Spawn(cwd, IF net THEN Exited(0, <<>>, <<>>)
               ELSE Exited(128, <<>>, errtext.network))

gitClone(repo_url, directory, net) ==
    LET baseDir == workingDirectory
        workspaceDir == baseDir \o str.slash \o str.issues_workspace
        dirs1 == dirs \cup {workspaceDir}
        repoName == repoNameOf(repo_url, directory)
        targetPath == workspaceDir \o str.slash \o repoName
        exists == runCommand(proc_test_d(baseDir, targetPath, dirs1))
        result == runCommand(proc_clone(baseDir, net))
        cmds == <<Argv(<<word.mkdir, word.p, workspaceDir>>, baseDir),
                  Argv(<<word.test, word.d, targetPath>>, baseDir)>>
        cloneCmd == Argv(<<word.git, word.clone, repo_url, targetPath>>, baseDir)
        call(cs, res, changed) ==
            Call("git_clone", None, None,
                 [repo_url |-> repo_url, directory |-> directory], baseDir,
                 NoVerification, cs, res, None, changed)
    IN  IF exists.success
        THEN /\ dirs' = dirs1
             /\ lastCall' = call(cmds,
                                 Json([already_exists |-> TRUE,
                                       success |-> FALSE,
                                       repo_path |-> repoName,
                                       full_path |-> targetPath]),
                                 dirs' # dirs)
             /\ UNCHANGED <<workingDirectory, repos, cloned>>
        ELSE IF ~result.success
        THEN /\ dirs' = dirs1
             /\ lastCall' = call(cmds \o <<cloneCmd>>,
                                 Text(msg.Error \o result.stderr), dirs' # dirs)
             /\ UNCHANGED <<workingDirectory, repos, cloned>>
        ELSE /\ dirs' = dirs1 \cup {targetPath}
             /\ repos' = [d \in DOMAIN repos \cup {targetPath} |->
                            IF d = targetPath
                            THEN [origin |-> repo_url, branch |-> str.main,
                                  staged |-> FALSE]
                            ELSE repos[d]]
             /\ cloned' = cloned \cup {[repo_url |-> repo_url,
                                        directory |-> directory,
                                        repo_path |-> repoName,
                                        full_path |-> targetPath]}
             /\ lastCall' = call(cmds \o <<cloneCmd>>,
                                 Json([already_exists |-> FALSE,
                                       success |-> TRUE,
                                       repo_path |-> repoName,
                                       full_path |-> targetPath]), TRUE)
             /\ UNCHANGED workingDirectory

(***************************************************************************)
(* run_shell                                                               *)
(***************************************************************************)
IsDangerous(command) ==
    \E i \in 1..Len(dangerous) : Includes(command, dangerous[i])

\* What `sh -c <command>` does in cwd, for the commands of ShellCommands:
\* `rm -r <path>` removes a directory tree, `git push origin HEAD:main`
\* pushes the checked-out commit to main, the others change nothing.
RmTarget(command, cwd) ==
    LET path == SubSeq(command, Len(shcmd.rm_r) + 1, Len(command))
    IN  IF StartsWith(path, str.slash) THEN path ELSE cwd \o str.slash \o path

IsRm(command, cwd) ==
    StartsWith(command, shcmd.rm_r) /\ RmTarget(command, cwd) \in dirs

proc_sh(command, cwd, net) ==
    Spawn(cwd,
          IF StartsWith(command, shcmd.rm_r)
          THEN IF IsRm(command, cwd) THEN Exited(0, <<>>, <<>>)
               ELSE Exited(1, <<>>, errtext.shell)
          ELSE IF command = shcmd.push_main
          THEN IF IsRepo(cwd) /\ net THEN Exited(0, <<>>, outtext.push)
               ELSE Exited(1, <<>>, errtext.network)
          ELSE Exited(0, <<>>, <<>>))

\* The effect of a `sh -c <command>` that was spawned in cwd.
ShellEffect(command, cwd) ==
    IF cwd \in dirs /\ IsRm(command, cwd)
    THEN /\ dirs' = dirs \ Under(RmTarget(command, cwd))
         /\ repos' = Restrict(repos, dirs')
    ELSE UNCHANGED <<dirs, repos>>

ShellPushedTo(command, result) ==
    IF command = shcmd.push_main /\ result.success THEN Some(str.main) ELSE None

runShell_checkedAfter(command, repo_path, net) ==
    LET cwd == resolveWorkDir(workingDirectory, repo_path)
        result == runCommand(proc_sh(command, cwd, net))
        call(cmds, res, pushedTo, changed) ==
            Call("run_shell", repo_path, None, [command |-> command], cwd,
                 NoVerification, cmds, res, pushedTo, changed)
    IN  IF IsDangerous(command)
        THEN /\ lastCall' = call(<<Argv(<<word.sh, word.c, command>>, cwd)>>,
                                 Text(msg.not_allowed), None, FALSE)
             /\ UNCHANGED <<workingDirectory, dirs, repos, cloned>>
        ELSE /\ ShellEffect(command, cwd)
             /\ lastCall' = call(<<Argv(<<word.sh, word.c, command>>, cwd)>>,
                                 Json([success |-> result.success,
                                       stdout |-> result.stdout,
                                       stderr |-> result.stderr]),
                                 ShellPushedTo(command, result),
                                 dirs' # dirs \/ repos' # repos)
             /\ UNCHANGED <<workingDirectory, cloned>>

runShell(command, repo_path, net) ==
    LET cwd == resolveWorkDir(workingDirectory, repo_path)
        result == runCommand(proc_sh(command, cwd, net))
        call(cmds, res, pushedTo, changed) ==
            Call("run_shell", repo_path, None, [command |-> command], cwd,
                 NoVerification, cmds, res, pushedTo, changed)
    IN  IF IsDangerous(command)
        THEN /\ lastCall' = call(<<>>, Text(msg.not_allowed), None, FALSE)
             /\ UNCHANGED <<workingDirectory, dirs, repos, cloned>>
        ELSE /\ ShellEffect(command, cwd)
             /\ lastCall' = call(<<Argv(<<word.sh, word.c, command>>, cwd)>>,
                                 Json([success |-> result.success,
                                       stdout |-> result.stdout,
                                       stderr |-> result.stderr]),
                                 ShellPushedTo(command, result),
                                 dirs' # dirs \/ repos' # repos)
             /\ UNCHANGED <<workingDirectory, cloned>>

(***************************************************************************)
(* git_status                                                              *)
(***************************************************************************)
RECURSIVE SelectLines(_)
\* .filter((line) => line.trim())
SelectLines(lines) ==
    IF lines = <<>> THEN <<>>
    ELSE (IF Trim(Head(lines)) # <<>> THEN <<Head(lines)>> ELSE <<>>)
         \o SelectLines(Tail(lines))

\* The porcelain lines as {status, file} pairs.
parseChanges(stdout) ==
    LET lines == SelectLines(SplitLines(stdout))
    IN  [i \in 1..Len(lines) |->
            [status |-> Trim(Substring(lines[i], 0, 2)),
             file |-> Substring(lines[i], 3, Len(lines[i]))]]

\* Promise.all over promises that settle in the order of `completions`, each
\* a pair of the promise's position in the array and its value: the array of
\* the values by position.
PromiseAll_completionOrder(completions) ==
    [i \in 1..Len(completions) |-> completions[i].value]

PromiseAll(completions) ==
    [i \in 1..Len(completions) |->
        (CHOOSE c \in {completions[k] : k \in 1..Len(completions)} :
            c.index = i).value]

\* The orders in which the two queries of git_status can complete.
CompletionOrders == {<<1, 2>>, <<2, 1>>}

gitStatus(repo_path, expected_repo, order) ==
    LET cwd == resolveWorkDir(workingDirectory, repo_path)
        v == Verification(cwd, expected_repo)
        started == <<runCommand(proc_status_porcelain(cwd)),
                     runCommand(proc_branch_show_current(cwd))>>
        settled == PromiseAll([k \in 1..2 |->
                                  [index |-> order[k],
                                   value |-> started[order[k]]]])
        statusResult == settled[1]
        branchResult == settled[2]
        branch == Trim(branchResult.stdout)
        changes == parseChanges(statusResult.stdout)
        queries == <<Argv(<<word.git, word.status, word.porcelain>>, cwd),
                     Argv(<<word.git, word.branch, word.show_current>>, cwd)>>
        call(cmds, res) ==
            Call("git_status", repo_path, expected_repo, <<>>, cwd,
                 VerificationOf(v), cmds, res, None, FALSE)
    IN  /\ lastCall' =
            IF v.failed THEN call(v.cmds, Text(msg.Error \o v.error))
            ELSE IF ~statusResult.success
            THEN call(v.cmds \o queries, Text(msg.Error \o statusResult.stderr))
            ELSE call(v.cmds \o queries,
                      Json([branch |-> branch, changes |-> changes,
                            clean |-> Len(changes) = 0]))
        /\ UNCHANGED <<workingDirectory, dirs, repos, cloned>>

(***************************************************************************)
(* git_checkout                                                            *)
(***************************************************************************)
\* What the repository answers to `git checkout <branch>` and, after an
\* unknown ref, to `git checkout -b <branch> origin/<branch>`; "detached" is
\* a name that is a tag or a commit, which leaves HEAD on no branch.
CheckoutOutcomes == {"ok", "detached", "unknown_remote_ok",
                     "unknown_remote_missing", "dirty"}

proc_checkout(cwd, outcome) ==
    Spawn(cwd, IF ~IsRepo(cwd) THEN Exited(128, <<>>, errtext.fatal_not_repo)
               ELSE IF outcome \in {"ok", "detached"} THEN Exited(0, <<>>, <<>>)
               ELSE IF outcome = "dirty" THEN Exited(1, <<>>, errtext.dirty)
               ELSE Exited(1, <<>>, errtext.pathspec))

proc_checkout_tracking(cwd, outcome) ==
    Spawn(cwd, IF ~IsRepo(cwd) THEN Exited(128, <<>>, errtext.fatal_not_repo)
               ELSE IF outcome = "unknown_remote_ok" THEN Exited(0, <<>>, <<>>)
               ELSE Exited(128, <<>>, errtext.not_commit))

NeedsFallback_anyFailure(result) ==
    ~result.success

NeedsFallback(result) ==
    ~result.success /\ Includes(result.stderr, str.did_not_match_any)

gitCheckout(branch_name, repo_path, expected_repo, outcome) ==
    LET cwd == resolveWorkDir(workingDirectory, repo_path)
        v == Verification(cwd, expected_repo)
        first == runCommand(proc_checkout(cwd, outcome))
        fallback == NeedsFallback(first)
        result == IF fallback
                  THEN runCommand(proc_checkout_tracking(cwd, outcome))
                  ELSE first
        cmds == v.cmds
                \o <<Argv(<<word.git, word.fetch, word.origin>>, cwd),
                     Argv(<<word.git, word.checkout, branch_name>>, cwd)>>
                \o (IF fallback
                    THEN <<Argv(<<word.git, word.checkout, word.b, branch_name,
                                  word.origin \o str.slash \o branch_name>>, cwd)>>
                    ELSE <<>>)
        call(cs, res, changed) ==
            Call("git_checkout", repo_path, expected_repo,
                 [branch_name |-> branch_name], cwd, VerificationOf(v), cs,
                 res, None, changed)
    IN  IF v.failed
        THEN /\ lastCall' = call(v.cmds, Text(msg.Error \o v.error), FALSE)
             /\ UNCHANGED <<workingDirectory, dirs, repos, cloned>>
        ELSE IF ~result.success
        THEN /\ lastCall' = call(cmds, Text(msg.Error \o result.stderr), FALSE)
             /\ UNCHANGED <<workingDirectory, dirs, repos, cloned>>
        ELSE /\ repos' = [repos EXCEPT ![cwd].branch =
                                         IF outcome = "detached" THEN <<>>
                                         ELSE branch_name]
             /\ lastCall' = call(cmds, Text(msg.switched \o branch_name),
                                 repos' # repos)
             /\ UNCHANGED <<workingDirectory, dirs, cloned>>

(***************************************************************************)
(* git_create_branch                                                       *)
(***************************************************************************)
\* `git checkout -b <branch>`: it fails when the branch exists, as the
\* checked-out branch always does.
proc_checkout_b(cwd, branch_name, isNew) ==
    Spawn(cwd, IF ~IsRepo(cwd) THEN Exited(128, <<>>, errtext.fatal_not_repo)
               ELSE IF isNew /\ repos[cwd].branch # branch_name
               THEN Exited(0, <<>>, <<>>)
               ELSE Exited(128, <<>>, errtext.exists))

gitCreateBranch_protected(branch_name, repo_path, expected_repo, isNew) ==
    LET cwd == resolveWorkDir(workingDirectory, repo_path)
        v == Verification(cwd, expected_repo)
        result == runCommand(proc_checkout_b(cwd, branch_name, isNew))
        cmds == v.cmds \o <<Argv(<<word.git, word.checkout, word.b, branch_name>>, cwd)>>
        call(cs, res, changed) ==
            Call("git_create_branch", repo_path, expected_repo,
                 [branch_name |-> branch_name], cwd, VerificationOf(v), cs,
                 res, None, changed)
    IN  IF v.failed
        THEN /\ lastCall' = call(v.cmds, Text(msg.Error \o v.error), FALSE)
             /\ UNCHANGED <<workingDirectory, dirs, repos, cloned>>
        ELSE IF IsProtected(branch_name)
        THEN /\ lastCall' = call(v.cmds,
                                 Text(msg.Error \o msg.cannot_push
                                      \o branch_name \o msg.create_feature),
                                 FALSE)
             /\ UNCHANGED <<workingDirectory, dirs, repos, cloned>>
        ELSE IF ~result.success
        THEN /\ lastCall' = call(cmds, Text(msg.Error \o result.stderr), FALSE)
             /\ UNCHANGED <<workingDirectory, dirs, repos, cloned>>
        ELSE /\ repos' = [repos EXCEPT ![cwd].branch = branch_name]
             /\ lastCall' = call(cmds, Text(msg.created \o branch_name), TRUE)
             /\ UNCHANGED <<workingDirectory, dirs, cloned>>

gitCreateBranch(branch_name, repo_path, expected_repo, isNew) ==
    LET cwd == resolveWorkDir(workingDirectory, repo_path)
        v == Verification(cwd, expected_repo)
        result == runCommand(proc_checkout_b(cwd, branch_name, isNew))
        cmds == v.cmds \o <<Argv(<<word.git, word.checkout, word.b, branch_name>>, cwd)>>
        call(cs, res, changed) ==
            Call("git_create_branch", repo_path, expected_repo,
                 [branch_name |-> branch_name], cwd, VerificationOf(v), cs,
                 res, None, changed)
    IN  IF v.failed
        THEN /\ lastCall' = call(v.cmds, Text(msg.Error \o v.error), FALSE)
             /\ UNCHANGED <<workingDirectory, dirs, repos, cloned>>
        ELSE IF ~result.success
        THEN /\ lastCall' = call(cmds, Text(msg.Error \o result.stderr), FALSE)
             /\ UNCHANGED <<workingDirectory, dirs, repos, cloned>>
        ELSE /\ repos' = [repos EXCEPT ![cwd].branch = branch_name]
             /\ lastCall' = call(cmds, Text(msg.created \o branch_name), TRUE)
             /\ UNCHANGED <<workingDirectory, dirs, cloned>>

(***************************************************************************)
(* git_add                                                                 *)
(***************************************************************************)
RECURSIVE Join(_, _)
\* files.join(sep)
Join(files, sep) ==
    IF files = <<>> THEN <<>>
    ELSE IF Len(files) = 1 THEN files[1]
    ELSE files[1] \o sep \o Join(Tail(files), sep)

FileLists == {<<str.dot>>, <<str.a_ts, str.dot>>}

proc_add(cwd) ==
    Spawn(cwd, IF ~IsRepo(cwd) THEN Exited(128, <<>>, errtext.fatal_not_repo)
               ELSE Exited(0, <<>>, <<>>))

gitAdd(files, repo_path, expected_repo) ==
    LET cwd == resolveWorkDir(workingDirectory, repo_path)
        v == Verification(cwd, expected_repo)
        result == runCommand(proc_add(cwd))
        cmds == v.cmds \o <<Argv(<<word.git, word.add>> \o files, cwd)>>
        call(cs, res, changed) ==
            Call("git_add", repo_path, expected_repo, [files |-> files], cwd,
                 VerificationOf(v), cs, res, None, changed)
    IN  IF v.failed
        THEN /\ lastCall' = call(v.cmds, Text(msg.Error \o v.error), FALSE)
             /\ UNCHANGED <<workingDirectory, dirs, repos, cloned>>
        ELSE IF ~result.success
        THEN /\ lastCall' = call(cmds, Text(msg.Error \o result.stderr), FALSE)
             /\ UNCHANGED <<workingDirectory, dirs, repos, cloned>>
        ELSE /\ repos' = [repos EXCEPT ![cwd].staged = TRUE]
             /\ lastCall' = call(cmds, Text(msg.staged \o Join(files, msg.comma)),
                                 repos' # repos)
             /\ UNCHANGED <<workingDirectory, dirs, cloned>>

(***************************************************************************)
(* git_commit                                                              *)
(***************************************************************************)
\* `git commit -m <message>`: with nothing staged it exits 1 and says so on
\* its standard output.
proc_commit(cwd) ==
    Spawn(cwd, IF ~IsRepo(cwd) THEN Exited(128, <<>>, errtext.fatal_not_repo)
               ELSE IF repos[cwd].staged THEN Exited(0, outtext.commit, <<>>)
               ELSE Exited(1, errtext.nothing, <<>>))

gitCommit(message, repo_path, expected_repo) ==
    LET cwd == resolveWorkDir(workingDirectory, repo_path)
        v == Verification(cwd, expected_repo)
        result == runCommand(proc_commit(cwd))
        cmds == v.cmds \o <<Argv(<<word.git, word.commit, word.m, message>>, cwd)>>
        call(cs, res, changed) ==
            Call("git_commit", repo_path, expected_repo,
                 [message |-> message], cwd, VerificationOf(v), cs, res,
                 None, changed)
    IN  IF v.failed
        THEN /\ lastCall' = call(v.cmds, Text(msg.Error \o v.error), FALSE)
             /\ UNCHANGED <<workingDirectory, dirs, repos, cloned>>
        ELSE IF ~result.success
        THEN /\ lastCall' = call(cmds, Text(msg.Error \o result.stderr), FALSE)
             /\ UNCHANGED <<workingDirectory, dirs, repos, cloned>>
        ELSE /\ repos' = [repos EXCEPT ![cwd].staged = FALSE]
             /\ lastCall' = call(cmds, Text(msg.committed \o result.stdout),
                                 TRUE)
             /\ UNCHANGED <<workingDirectory, dirs, cloned>>

(***************************************************************************)
(* run_tests                                                               *)
(***************************************************************************)
checks_goBeforeDeno ==
    <<[file |-> marker.package_json, cmd |-> testcmd.npm],
      [file |-> marker.go_mod, cmd |-> testcmd.go],
      [file |-> marker.cargo_toml, cmd |-> testcmd.cargo],
      [file |-> marker.deno_json, cmd |-> testcmd.deno],
      [file |-> marker.pytest_ini, cmd |-> testcmd.pytest],
      [file |-> marker.setup_py, cmd |-> testcmd.python]>>

checks ==
    <<[file |-> marker.package_json, cmd |-> testcmd.npm],
      [file |-> marker.deno_json, cmd |-> testcmd.deno],
      [file |-> marker.cargo_toml, cmd |-> testcmd.cargo],
      [file |-> marker.go_mod, cmd |-> testcmd.go],
      [file |-> marker.pytest_ini, cmd |-> testcmd.pytest],
      [file |-> marker.setup_py, cmd |-> testcmd.python]>>

\* The marker files of a directory: the work tree of bob/utils is a Deno
\* project that also holds a go.mod, the one of alice/utils a Python
\* package; a directory that is no work tree holds none.
FilesIn(cwd) ==
    IF ~IsRepo(cwd) THEN {}
    ELSE IF repos[cwd].origin = str.url_bob THEN {marker.deno_json, marker.go_mod}
    ELSE {marker.setup_py}

proc_test_f(cwd, file) ==
    Spawn(cwd, Exited(IF file \in FilesIn(cwd) THEN 0 ELSE 1, <<>>, <<>>))

\* The markers probed by the detection loop: the checks up to and including
\* the first whose file exists, all of them when none does.
Probed(cwd) ==
    LET hits == {i \in 1..Len(checks) :
                    runCommand(proc_test_f(cwd, checks[i].file)).success}
        n == IF hits = {} THEN Len(checks)
             ELSE CHOOSE i \in hits : \A j \in hits : i <= j
    IN  [found |-> hits # {}, n |-> n]

TestCommands == {None, Some(<<>>), Some(shcmd.sudo_ls), Some(shcmd.push_main)}

runTests_checked(test_command, repo_path, net) ==
    LET cwd == resolveWorkDir(workingDirectory, repo_path)
        detect == ~Truthy(test_command)
        probed == Probed(cwd)
        probes == IF detect
                  THEN [i \in 1..probed.n |->
                           Argv(<<word.test, word.f, checks[i].file>>, cwd)]
                  ELSE <<>>
        command == IF ~detect THEN test_command
                   ELSE IF probed.found THEN Some(checks[probed.n].cmd)
                   ELSE None
        result == runCommand(proc_sh(command[1], cwd, net))
        call(cmds, res, pushedTo, changed) ==
            Call("run_tests", repo_path, None,
                 [test_command |-> test_command], cwd, NoVerification, cmds,
                 res, pushedTo, changed)
    IN  IF Truthy(command) /\ IsDangerous(command[1])
        THEN /\ lastCall' = call(probes, Text(msg.not_allowed), None, FALSE)
             /\ UNCHANGED <<workingDirectory, dirs, repos, cloned>>
        ELSE IF ~Truthy(command)
        THEN /\ lastCall' = call(probes, Text(msg.no_test), None, FALSE)
             /\ UNCHANGED <<workingDirectory, dirs, repos, cloned>>
        ELSE /\ ShellEffect(command[1], cwd)
             /\ lastCall' = call(probes \o <<Argv(<<word.sh, word.c, command[1]>>,
                                                  cwd)>>,
                                 Json([success |-> result.success,
                                       test_command |-> command[1],
                                       stdout |-> result.stdout,
                                       stderr |-> result.stderr,
                                       summary |-> IF result.success
                                                   THEN msg.passed
                                                   ELSE msg.failed]),
                                 ShellPushedTo(command[1], result),
                                 dirs' # dirs \/ repos' # repos)
             /\ UNCHANGED <<workingDirectory, cloned>>

runTests(test_command, repo_path, net) ==
    LET cwd == resolveWorkDir(workingDirectory, repo_path)
        detect == ~Truthy(test_command)
        probed == Probed(cwd)
        probes == IF detect
                  THEN [i \in 1..probed.n |->
                           Argv(<<word.test, word.f, checks[i].file>>, cwd)]
                  ELSE <<>>
        command == IF ~detect THEN test_command
                   ELSE IF probed.found THEN Some(checks[probed.n].cmd)
                   ELSE None
        result == runCommand(proc_sh(command[1], cwd, net))
        call(cmds, res, pushedTo, changed) ==
            Call("run_tests", repo_path, None,
                 [test_command |-> test_command], cwd, NoVerification, cmds,
                 res, pushedTo, changed)
    IN  IF ~Truthy(command)
        THEN /\ lastCall' = call(probes, Text(msg.no_test), None, FALSE)
             /\ UNCHANGED <<workingDirectory, dirs, repos, cloned>>
        ELSE /\ ShellEffect(command[1], cwd)
             /\ lastCall' = call(probes \o <<Argv(<<word.sh, word.c, command[1]>>,
                                                  cwd)>>,
                                 Json([success |-> result.success,
                                       test_command |-> command[1],
                                       stdout |-> result.stdout,
                                       stderr |-> result.stderr,
                                       summary |-> IF result.success
                                                   THEN msg.passed
                                                   ELSE msg.failed]),
                                 ShellPushedTo(command[1], result),
                                 dirs' # dirs \/ repos' # repos)
             /\ UNCHANGED <<workingDirectory, cloned>>


(***************************************************************************)
(* GitHub references                                                       *)
(***************************************************************************)
DigitChars == <<"0", "1", "2", "3", "4", "5", "6", "7", "8", "9">>

\* \d
IsDigit(ch) == \E v \in 1..10 : DigitChars[v] = ch

RECURSIVE parseInt(_)
\* parseInt of a text of decimal digits.
parseInt(digits) ==
    IF digits = <<>> THEN 0
    ELSE parseInt(SubSeq(digits, 1, Len(digits) - 1)) * 10
         + (CHOOSE v \in 0..9 : DigitChars[v + 1] = digits[Len(digits)])

RECURSIVE NumberToString(_)
\* A number inside a template literal: its decimal digits.
NumberToString(n) ==
    IF n < 10 THEN <<DigitChars[n + 1]>>
    ELSE NumberToString(n \div 10) \o <<DigitChars[(n % 10) + 1]>>

\* The position after the literal text lit when s holds it at position i,
\* and 0 when it does not.
AfterLiteral(s, i, lit) ==
    IF /\ i + Len(lit) - 1 <= Len(s)
       /\ SubSeq(s, i, i + Len(lit) - 1) = lit
    THEN i + Len(lit)
    ELSE 0

\* The position after the longest run from position i of characters other
\* than stop: what a greedy [^x]+ takes when the pattern goes on with x.
AfterRun(s, i, stop) ==
    CHOOSE j \in i..(Len(s) + 1) :
        /\ j = Len(s) + 1 \/ s[j] = stop
        /\ \A k \in i..(j - 1) : s[k] # stop

\* The position after the longest run of digits from position i: (\d+).
AfterDigits(s, i) ==
    CHOOSE j \in i..(Len(s) + 1) :
        /\ j = Len(s) + 1 \/ ~IsDigit(s[j])
        /\ \A k \in i..(j - 1) : IsDigit(s[k])

\* /github\.com\/([^/]+)\/([^/]+)\/<kind>\/(\d+)/ tried at position i: the
\* three groups, or <<>> when the pattern does not match there.
urlPatternAt(url, i, kind) ==
    LET a == AfterLiteral(url, i, gh.host)
        b == AfterRun(url, a, "/")
        c == AfterRun(url, b + 1, "/")
        d == AfterLiteral(url, c, kind)
        e == AfterDigits(url, d)
    IN  IF a = 0 \/ b = a \/ b > Len(url) THEN <<>>
        ELSE IF c = b + 1 \/ c > Len(url) THEN <<>>
        ELSE IF d = 0 \/ e = d THEN <<>>
        ELSE <<SubSeq(url, a, b - 1), SubSeq(url, b + 1, c - 1),
               SubSeq(url, d, e - 1)>>

\* url.match of the pattern, which is not anchored: the match at the
\* leftmost position where the pattern matches, or <<>> for null.
matchUrl(url, kind) ==
    LET at == {i \in 1..Len(url) : urlPatternAt(url, i, kind) # <<>>}
    IN  IF at = {} THEN <<>>
        ELSE urlPatternAt(url, CHOOSE i \in at : \A j \in at : i <= j, kind)

urlPattern(url) == matchUrl(url, gh.issues)

\* /^([^/]+)\/([^#]+)#(\d+)$/
shortPattern_oneDigit(url) ==
    LET b == AfterRun(url, 1, "/")
        c == AfterRun(url, b + 1, "#")
        e == c + 2
    IN  IF b = 1 \/ b > Len(url) THEN <<>>
        ELSE IF c = b + 1 \/ c > Len(url) THEN <<>>
        ELSE IF e # Len(url) + 1 \/ ~IsDigit(url[c + 1]) THEN <<>>
        ELSE <<SubSeq(url, 1, b - 1), SubSeq(url, b + 1, c - 1),
               SubSeq(url, c + 1, e - 1)>>

shortPattern(url) ==
    LET b == AfterRun(url, 1, "/")
        c == AfterRun(url, b + 1, "#")
        e == AfterDigits(url, c + 1)
    IN  IF b = 1 \/ b > Len(url) THEN <<>>
        ELSE IF c = b + 1 \/ c > Len(url) THEN <<>>
        ELSE IF e = c + 1 \/ e # Len(url) + 1 THEN <<>>
        ELSE <<SubSeq(url, 1, b - 1), SubSeq(url, b + 1, c - 1),
               SubSeq(url, c + 1, e - 1)>>

\* A parsed reference, and the Error a parser throws.
Parsed(match) ==
    [thrown |-> FALSE, owner |-> match[1], repo |-> match[2],
     number |-> parseInt(match[3]), message |-> <<>>]

Throw(message) ==
    [thrown |-> TRUE, owner |-> <<>>, repo |-> <<>>, number |-> 0,
     message |-> message]

parseIssueUrl(url) ==
    IF urlPattern(url) # <<>> THEN Parsed(urlPattern(url))
    ELSE IF shortPattern(url) # <<>> THEN Parsed(shortPattern(url))
    ELSE Throw(msg.invalid_issue \o url \o msg.expected_issue)

parsePrUrl_orShort(url) ==
    IF matchUrl(url, gh.pull) # <<>> THEN Parsed(matchUrl(url, gh.pull))
    ELSE IF shortPattern(url) # <<>> THEN Parsed(shortPattern(url))
    ELSE Throw(msg.invalid_pr \o url \o msg.expected_pr)

parsePrUrl(url) ==
    IF matchUrl(url, gh.pull) # <<>> THEN Parsed(matchUrl(url, gh.pull))
    ELSE Throw(msg.invalid_pr \o url \o msg.expected_pr)

(***************************************************************************)
(* GitHub REST API                                                         *)
(***************************************************************************)
\* What fetch does: it rejects (no connection), or it resolves with a
\* response that is ok for a status 200..299 and has a text or JSON body.
Rejected(error) ==
    [rejected |-> TRUE, ok |-> FALSE, status |-> 0, text |-> error,
     json |-> <<>>]

Responded(status, text, json) ==
    [rejected |-> FALSE, ok |-> status \in 200..299, status |-> status,
     text |-> text, json |-> json]

\* A request the tool made: method, URL and JSON payload.
Request(method, url, payload) ==
    [cmd |-> <<method, url>>, cwd |-> <<>>, payload |-> payload]

IssueJsons ==
    {[number |-> 7, title |-> "Crash on start", body |-> b, state |-> "open",
      labels |-> <<[name |-> "bug"]>>, user |-> [login |-> "alice"],
      created_at |-> "2024-01-01", html_url |-> "issues/7"] :
        b \in {"", "It crashes."}}

CommentJsons ==
    {<<>>, <<[user |-> [login |-> "bob"], body |-> "Same here.",
              created_at |-> "2024-01-02"]>>}

IssueResponses ==
    {Responded(200, <<>>, j) : j \in IssueJsons}
    \cup {Responded(404, bodytext.not_found, <<>>), Rejected(errtext.fetch)}

CommentsResponses ==
    {Responded(200, <<>>, j) : j \in CommentJsons}
    \cup {Responded(403, bodytext.rate_limit, <<>>), Rejected(errtext.fetch)}

\* await response.text()
responseText_trimmed(response) == Trim(response.text)

responseText(response) == response.text

\* The call record of a GitHub tool: no directory and no verification.
ApiCall(tool, args, requests, result) ==
    Call(tool, None, None, args, <<>>, NoVerification, requests, result,
         None, FALSE)

ReposUrl(owner, repo) ==
    gh.api \o gh.repos \o owner \o str.slash \o repo

(***************************************************************************)
(* fetch_github_issue                                                      *)
(***************************************************************************)
fetchIssue_retried(issue_url, issueResponse, commentsResponse) ==
    LET parsed == parseIssueUrl(issue_url)
        owner == parsed.owner
        repo == parsed.repo
        issueRequest ==
            Request(gh.GET, ReposUrl(owner, repo) \o gh.issues
                            \o NumberToString(parsed.number), <<>>)
        commentsRequest ==
            Request(gh.GET, ReposUrl(owner, repo) \o gh.issues
                            \o NumberToString(parsed.number) \o gh.comments,
                    <<>>)
        issue == issueResponse.json
        comments == IF commentsResponse.ok THEN commentsResponse.json
                    ELSE <<>>
        result ==
            [number |-> issue.number,
             title |-> issue.title,
             body |-> IF issue.body # "" THEN issue.body
                      ELSE "(no description)",
             state |-> issue.state,
             labels |-> [i \in 1..Len(issue.labels) |-> issue.labels[i].name],
             author |-> issue.user.login,
             created_at |-> issue.created_at,
             html_url |-> issue.html_url,
             repository |-> [owner |-> owner, repo |-> repo,
                             full_name |-> owner \o str.slash \o repo],
             comments |-> [i \in 1..Len(comments) |->
                              [author |-> comments[i].user.login,
                               body |-> comments[i].body,
                               created_at |-> comments[i].created_at]]]
        call(requests, res) ==
            ApiCall("fetch_github_issue", [issue_url |-> issue_url],
                    requests, res)
    IN  /\ lastCall' =
            IF parsed.thrown
            THEN call(<<>>, Text(msg.Error \o msg.Error \o parsed.message))
            ELSE IF issueResponse.rejected
            THEN call(<<issueRequest>>, Text(msg.Error \o issueResponse.text))
            ELSE IF ~issueResponse.ok
            THEN call(<<issueRequest, issueRequest>>,
                      Text(msg.error_fetching_issue
                           \o responseText(issueResponse)))
            ELSE IF commentsResponse.rejected
            THEN call(<<issueRequest, commentsRequest>>,
                      Text(msg.Error \o commentsResponse.text))
            ELSE call(<<issueRequest, commentsRequest>>, Json(result))
        /\ UNCHANGED <<workingDirectory, dirs, repos, cloned>>

fetchIssue(issue_url, issueResponse, commentsResponse) ==
    LET parsed == parseIssueUrl(issue_url)
        owner == parsed.owner
        repo == parsed.repo
        issueRequest ==
            Request(gh.GET, ReposUrl(owner, repo) \o gh.issues
                            \o NumberToString(parsed.number), <<>>)
        commentsRequest ==
            Request(gh.GET, ReposUrl(owner, repo) \o gh.issues
                            \o NumberToString(parsed.number) \o gh.comments,
                    <<>>)
        issue == issueResponse.json
        comments == IF commentsResponse.ok THEN commentsResponse.json
                    ELSE <<>>
        result ==
            [number |-> issue.number,
             title |-> issue.title,
             body |-> IF issue.body # "" THEN issue.body
                      ELSE "(no description)",
             state |-> issue.state,
             labels |-> [i \in 1..Len(issue.labels) |-> issue.labels[i].name],
             author |-> issue.user.login,
             created_at |-> issue.created_at,
             html_url |-> issue.html_url,
             repository |-> [owner |-> owner, repo |-> repo,
                             full_name |-> owner \o str.slash \o repo],
             comments |-> [i \in 1..Len(comments) |->
                              [author |-> comments[i].user.login,
                               body |-> comments[i].body,
                               created_at |-> comments[i].created_at]]]
        call(requests, res) ==
            ApiCall("fetch_github_issue", [issue_url |-> issue_url],
                    requests, res)
    IN  /\ lastCall' =
            IF parsed.thrown
            THEN call(<<>>, Text(msg.Error \o msg.Error \o parsed.message))
            ELSE IF issueResponse.rejected
            THEN call(<<issueRequest>>, Text(msg.Error \o issueResponse.text))
            ELSE IF ~issueResponse.ok
            THEN call(<<issueRequest>>,
                      Text(msg.error_fetching_issue
                           \o responseText(issueResponse)))
            ELSE IF commentsResponse.rejected
            THEN call(<<issueRequest, commentsRequest>>,
                      Text(msg.Error \o commentsResponse.text))
            ELSE call(<<issueRequest, commentsRequest>>, Json(result))
        /\ UNCHANGED <<workingDirectory, dirs, repos, cloned>>

(***************************************************************************)
(* create_pull_request                                                     *)
(***************************************************************************)
PullRequestParams ==
    [owner : {ref.bob}, repo : {ref.utils, ref.my_repo},
     title : {"Fix crash on start"}, body : {"Fixes #7"},
     head : {"fix/issue-7"}, base : {"main"}]

CreatedJsons ==
    {[number |-> 12, title |-> "Fix crash on start", html_url |-> "pull/12",
      state |-> "open"]}

CreateResponses ==
    {Responded(201, <<>>, j) : j \in CreatedJsons}
    \cup {Responded(422, bodytext.validation, <<>>),
          Responded(404, bodytext.not_found, <<>>),
          Responded(500, <<>>, <<>>),
          Rejected(errtext.fetch)}

createPullRequest(params, response) ==
    LET request ==
            Request(gh.POST, ReposUrl(params.owner, params.repo) \o gh.pulls,
                    [title |-> params.title, body |-> params.body,
                     head |-> params.head, base |-> params.base])
        pr == response.json
        call(res) == ApiCall("create_pull_request", params, <<request>>, res)
    IN  /\ lastCall' =
            IF response.rejected
            THEN call(Text(msg.Error \o response.text))
            ELSE IF ~response.ok
            THEN call(Text(msg.error_creating_pr \o responseText(response)))
            ELSE call(Json([number |-> pr.number, title |-> pr.title,
                            html_url |-> pr.html_url, state |-> pr.state]))
        /\ UNCHANGED <<workingDirectory, dirs, repos, cloned>>

(***************************************************************************)
(* fetch_pr_details                                                        *)
(***************************************************************************)
PrJsons ==
    {[number |-> 12, title |-> "Fix crash on start", body |-> b,
      state |-> "open", merged |-> FALSE,
      head |-> [ref |-> "fix/issue-7", repo |-> r], base |-> [ref |-> "main"],
      user |-> [login |-> "bob"], html_url |-> "pull/12",
      created_at |-> "2024-01-03", updated_at |-> "2024-01-04"] :
        b \in {"", "Fixes #7"},
        r \in {<<>>, <<[clone_url |-> "bob/utils.git"]>>}}

PrResponses ==
    {Responded(200, <<>>, j) : j \in PrJsons}
    \cup {Responded(404, bodytext.not_found, <<>>), Rejected(errtext.fetch)}

fetchPrDetails(pr_url, response) ==
    LET parsed == parsePrUrl(pr_url)
        owner == parsed.owner
        repo == parsed.repo
        request ==
            Request(gh.GET, ReposUrl(owner, repo) \o gh.pulls_n
                            \o NumberToString(parsed.number), <<>>)
        pr == response.json
        result ==
            [number |-> pr.number,
             title |-> pr.title,
             body |-> IF pr.body # "" THEN pr.body ELSE "(no description)",
             state |-> pr.state,
             merged |-> pr.merged,
             head_branch |-> pr.head.ref,
             base_branch |-> pr.base.ref,
             author |-> pr.user.login,
             html_url |-> pr.html_url,
             repository |-> [owner |-> owner, repo |-> repo,
                             full_name |-> owner \o str.slash \o repo],
             clone_url |-> IF pr.head.repo # <<>>
                           THEN <<pr.head.repo[1].clone_url>>
                           ELSE <<>>,
             created_at |-> pr.created_at,
             updated_at |-> pr.updated_at]
        call(requests, res) ==
            ApiCall("fetch_pr_details", [pr_url |-> pr_url], requests, res)
    IN  /\ lastCall' =
            IF parsed.thrown
            THEN call(<<>>, Text(msg.Error \o msg.Error \o parsed.message))
            ELSE IF response.rejected
            THEN call(<<request>>, Text(msg.Error \o response.text))
            ELSE IF ~response.ok
            THEN call(<<request>>,
                      Text(msg.error_fetching_pr \o responseText(response)))
            ELSE call(<<request>>, Json(result))
        /\ UNCHANGED <<workingDirectory, dirs, repos, cloned>>

(***************************************************************************)
(* The agent loop invokes one tool at a time, with any arguments, and      *)
(* takes its result before it invokes the next.                            *)
(***************************************************************************)
GitStatus ==
    /\ Idle
    /\ \E t \in Targets, order \in CompletionOrders :
        gitStatus(t.repo_path, t.expected_repo, order)

GitCheckout ==
    /\ Idle
    /\ \E branch_name \in BranchNames, t \in Targets,
       outcome \in CheckoutOutcomes :
        gitCheckout(branch_name, t.repo_path, t.expected_repo, outcome)

GitCreateBranch ==
    /\ Idle
    /\ \E branch_name \in NewBranchNames, t \in Targets, isNew \in BOOLEAN :
        gitCreateBranch(branch_name, t.repo_path, t.expected_repo, isNew)

GitAdd ==
    /\ Idle
    /\ \E files \in FileLists, t \in Targets :
        gitAdd(files, t.repo_path, t.expected_repo)

GitCommit ==
    /\ Idle
    /\ \E t \in Targets : gitCommit(str.fix_issue, t.repo_path, t.expected_repo)

GitPush ==
    /\ Idle
    /\ \E set_upstream \in BOOLEAN, t \in Targets, net \in BOOLEAN :
        gitPush(set_upstream, t.repo_path, t.expected_repo, net)

GitClone ==
    /\ Idle
    /\ \E repo_url \in RepoUrls, directory \in Directories, net \in BOOLEAN :
        gitClone(repo_url, directory, net)

RunShell ==
    /\ Idle
    /\ \E command \in ShellCommands, repo_path \in ShellPaths :
        \E net \in Net(command) : runShell(command, repo_path, net)

RunTests ==
    /\ Idle
    /\ \E test_command \in TestCommands, repo_path \in ShellPaths,
       net \in BOOLEAN :
        runTests(test_command, repo_path, net)

Consume ==
    /\ ~Idle
    /\ lastCall' = NoCall
    /\ UNCHANGED <<workingDirectory, dirs, repos, cloned>>

Next ==
    \/ GitStatus
    \/ GitCheckout
    \/ GitCreateBranch
    \/ GitAdd
    \/ GitCommit
    \/ GitPush
    \/ GitClone
    \/ RunShell
    \/ RunTests
    \/ Consume

Spec == Init /\ [][Next]_vars

(***************************************************************************)
(* The clone workflow on its own: the agent clones repositories of any     *)
(* name and then hands the repo_path that git_clone returned ("Use         *)
(* repo_path ... with other git tools") to git_status.                     *)
(***************************************************************************)
CloneUrls ==
    RepoUrls \cup {str.url_bob_git, str.url_pages, str.url_iw_tools}

GitCloneAny ==
    /\ Idle
    /\ \E repo_url \in CloneUrls, directory \in Directories, net \in BOOLEAN :
        gitClone(repo_url, directory, net)

GitStatusCloned ==
    /\ Idle
    /\ \E c \in cloned, order \in CompletionOrders :
        gitStatus(Some(c.repo_path), None, order)

NextClone ==
    \/ GitCloneAny
    \/ GitStatusCloned
    \/ Consume

SpecClone == Init /\ [][NextClone]_vars

(***************************************************************************)
(* The GitHub tools on their own: they read and write through the REST     *)
(* API and touch nothing on disk.                                          *)
(***************************************************************************)
Owners == {ref.bob, ref.a_b}

RepoNames == {ref.utils, ref.my_repo}

Numbers == {ref.n7, ref.n12, ref.n007}

IssueUrlOf(owner, repo, n) ==
    gh.https \o gh.host \o owner \o str.slash \o repo \o gh.issues \o n

ShortOf(owner, repo, n) == owner \o str.slash \o repo \o gh.hash \o n

PrUrlOf(owner, repo, n) ==
    gh.https \o gh.host \o owner \o str.slash \o repo \o gh.pull \o n

References ==
    {IssueUrlOf(o, r, n) : o \in Owners, r \in RepoNames, n \in Numbers}
    \cup {ShortOf(o, r, n) : o \in Owners, r \in RepoNames, n \in Numbers}
    \cup {PrUrlOf(o, r, n) : o \in Owners, r \in RepoNames, n \in Numbers}
    \cup {<<>>, ref.issue_in_text, ref.two_hosts, ref.no_number, ref.no_repo,
          ref.plain, ref.trailing, ref.nested, ref.no_owner, ref.no_digits,
          ref.other_host}

FetchIssue ==
    /\ Idle
    /\ \E issue_url \in References, issueResponse \in IssueResponses,
       commentsResponse \in CommentsResponses :
        fetchIssue(issue_url, issueResponse, commentsResponse)

CreatePullRequest ==
    /\ Idle
    /\ \E params \in PullRequestParams, response \in CreateResponses :
        createPullRequest(params, response)

FetchPrDetails ==
    /\ Idle
    /\ \E pr_url \in References, response \in PrResponses :
        fetchPrDetails(pr_url, response)

NextGitHub ==
    \/ FetchIssue
    \/ CreatePullRequest
    \/ FetchPrDetails
    \/ Consume

SpecGitHub == Init /\ [][NextGitHub]_vars

(***************************************************************************)
(* All the tools the agent registers, git/shell and GitHub together.       *)
(***************************************************************************)
NextTools ==
    \/ Next
    \/ FetchIssue
    \/ CreatePullRequest
    \/ FetchPrDetails

SpecTools == Init /\ [][NextTools]_vars

(***************************************************************************)
(* Properties.                                                             *)
(***************************************************************************)
\* s holds sub as a contiguous run of characters.
Contains(s, sub) ==
    \E i \in 0..(Len(s) - Len(sub)) : \A k \in 1..Len(sub) : s[i + k] = sub[k]

\* The branch `git branch --show-current` reports in directory d, trimmed.
ReportedBranch(d) == Trim(runCommand(proc_branch_show_current(d)).stdout)

\* The branch name is main, master, develop or production in any letter case.
OnProtectedList(branch) ==
    ToLowerCase(branch) \in {str.main, str.master, str.develop, str.production}

GitTools ==
    {"git_status", "git_checkout", "git_create_branch", "git_add",
     "git_commit", "git_push"}

OriginQuery(d) == <<Argv(<<word.git, word.remote, word.get_url, word.origin>>, d)>>

\* C1: once git_push has read the current branch, it returns an error and
\* runs no `git push` when the branch is main, master, develop or production
\* in any letter case, and runs `git push` for every other branch name.
C1_PushProtectedBranch ==
    (lastCall.tool = "git_push" /\ Ran(lastCall.cmds, word.branch))
        => IF OnProtectedList(ReportedBranch(lastCall.cwd))
           THEN IsError(lastCall.result) /\ ~Ran(lastCall.cmds, word.push)
           ELSE Ran(lastCall.cmds, word.push)

C1_Witness ==
    /\ lastCall.tool = "git_push"
    /\ ReportedBranch(lastCall.cwd) = str.Main
    /\ IsError(lastCall.result)
    /\ ~Ran(lastCall.cmds, word.push)

\* C2: no tool invocation pushes to a protected branch: whatever tool ran,
\* the branch that received its push, if any, is none of main, master,
\* develop and production.
C2_NoProtectedPush ==
    Truthy(lastCall.pushedTo) => ~OnProtectedList(lastCall.pushedTo[1])

\* The directory git_clone targets for a URL and a directory override.
TargetPath(repo_url, directory) ==
    workingDirectory \o str.slash \o str.issues_workspace \o str.slash
    \o repoNameOf(repo_url, directory)

\* What C3 asks of a git_clone(repo_url, directory) step.
ReturnsExisting(c) ==
    /\ lastCall'.result.isJson
    /\ lastCall'.result.obj.already_exists
    /\ lastCall'.result.obj.repo_path = c.repo_path
    /\ ~Ran(lastCall'.cmds, word.clone)

\* C3 as claimed: after a git_clone that succeeded for a URL, every later
\* git_clone with the same URL and directory override returns
\* already_exists=true with the same repo_path and runs no `git clone`.
C3_EveryLaterClone ==
    [][\A c \in cloned : \A net \in BOOLEAN :
          (Idle /\ gitClone(c.repo_url, c.directory, net))
              => ReturnsExisting(c)]_vars

\* C3, amended: after a git_clone that succeeded for a URL, every later
\* git_clone with the same URL and directory override that finds the cloned
\* directory still in place returns already_exists=true with the same
\* repo_path and runs no `git clone`.
C3_CloneIdempotent ==
    [][\A c \in cloned : \A net \in BOOLEAN :
          (/\ Idle
           /\ TargetPath(c.repo_url, c.directory) \in dirs
           /\ gitClone(c.repo_url, c.directory, net))
              => ReturnsExisting(c)]_vars

C3_Witness ==
    /\ lastCall.tool = "git_clone"
    /\ lastCall.result.isJson
    /\ lastCall.result.obj.already_exists
    /\ \E c \in cloned :
          /\ c.repo_url = lastCall.args.repo_url
          /\ c.directory = lastCall.args.directory
          /\ c.repo_path = lastCall.result.obj.repo_path

\* C4: the directory git_clone returns for a repository URL (no directory
\* override) is never the directory of a repository cloned from another URL,
\* so that bob/utils and alice/utils do not collide.
C4_UniqueRepoPath ==
    (/\ lastCall.tool = "git_clone"
     /\ lastCall.result.isJson
     /\ ~Truthy(lastCall.args.directory))
        => \A d \in DOMAIN repos :
              repos[d].origin # lastCall.args.repo_url
                  => d # lastCall.result.obj.full_path

\* C5: git_clone reports already_exists only for a directory that holds the
\* requested repository.
C5_ExistingIsVerified ==
    (/\ lastCall.tool = "git_clone"
     /\ lastCall.result.isJson
     /\ lastCall.result.obj.already_exists)
        => /\ IsRepo(lastCall.result.obj.full_path)
           /\ repos[lastCall.result.obj.full_path].origin
                = lastCall.args.repo_url

\* The origin query fails in d, or the origin URL does not hold expected.
WrongRepo(d, expected) ==
    \/ d \notin dirs
    \/ ~IsRepo(d)
    \/ ~Contains(repos[d].origin, expected)

\* C6: when git_status, git_checkout, git_create_branch, git_add, git_commit
\* or git_push is given an expected_repo that verification rejects, the tool
\* returns an `Error: ...` string, runs no command after the origin query
\* and leaves the directories and repositories unchanged.
C6_RejectedVerificationStops ==
    (/\ lastCall.tool \in GitTools
     /\ Truthy(lastCall.expected_repo)
     /\ WrongRepo(lastCall.cwd, lastCall.expected_repo[1]))
        => /\ IsError(lastCall.result)
           /\ lastCall.cmds = OriginQuery(lastCall.cwd)
           /\ ~lastCall.changed

C6_Witness ==
    /\ lastCall.tool = "git_commit"
    /\ Truthy(lastCall.expected_repo)
    /\ IsRepo(lastCall.cwd)
    /\ repos[lastCall.cwd].staged
    /\ ~Contains(repos[lastCall.cwd].origin, lastCall.expected_repo[1])
    /\ IsError(lastCall.result)

\* The command holds one of the five dangerous substrings.
HasDangerousSubstring(command) ==
    \/ Contains(command, str.rm_rf_root)
    \/ Contains(command, str.sudo)
    \/ Contains(command, str.mkfs)
    \/ Contains(command, str.dd_if)
    \/ Contains(command, str.to_dev)

\* C7: run_shell returns its error and runs nothing exactly when the command
\* holds a dangerous substring; every other command is run with `sh -c`.
C7_ShellDenylist ==
    lastCall.tool = "run_shell"
        => IF HasDangerousSubstring(lastCall.args.command)
           THEN IsError(lastCall.result) /\ lastCall.cmds = <<>>
           ELSE /\ ~IsError(lastCall.result)
                /\ lastCall.cmds
                     = <<Argv(<<word.sh, word.c, lastCall.args.command>>,
                              lastCall.cwd)>>

C7_Witness ==
    /\ lastCall.tool = "run_shell"
    /\ lastCall.args.command = shcmd.visudo
    /\ IsError(lastCall.result)
    /\ lastCall.cmds = <<>>

\* The directories the tools can resolve.
WorkDirs == {resolveWorkDir(workingDirectory, p) : p \in RepoPaths}

\* C8: verifyRepo returns valid=false whenever the origin query fails, for
\* every expected value, the absent one included.
C8_FailedQueryInvalid ==
    /\ \A d \in WorkDirs : \A expected \in ExpectedRepos :
          (d \notin dirs \/ ~IsRepo(d)) => ~verifyRepo(d, expected).valid
    /\ (/\ lastCall.verification.ran
        /\ (lastCall.cwd \notin dirs \/ ~IsRepo(lastCall.cwd)))
           => ~lastCall.verification.valid

C8_Witness ==
    /\ lastCall.verification.ran
    /\ lastCall.cwd \in dirs
    /\ ~IsRepo(lastCall.cwd)
    /\ ~lastCall.verification.valid

ExpectedStrings ==
    {<<>>, str.bob_utils, str.alice_utils, str.utils, str.github, str.url_bob,
     str.url_bob \o str.dotgit, str.dotgit}

\* C9: when the origin query succeeds, verifyRepo returns valid=true exactly
\* when the origin URL holds expected as a substring.
C9_ValidIffSubstring ==
    /\ \A d \in WorkDirs \cap dirs : \A expected \in ExpectedStrings :
          IsRepo(d) => (verifyRepo(d, Some(expected)).valid
                          <=> Contains(repos[d].origin, expected))
    /\ (lastCall.verification.ran /\ IsRepo(lastCall.cwd))
           => (lastCall.verification.valid
                 <=> Contains(repos[lastCall.cwd].origin,
                              lastCall.expected_repo[1]))

C9_Witness ==
    /\ lastCall.verification.ran
    /\ lastCall.verification.valid
    /\ IsRepo(lastCall.cwd)
    /\ repos[lastCall.cwd].origin # lastCall.expected_repo[1]
    /\ \E d \in DOMAIN repos :
          ~Contains(repos[d].origin, lastCall.expected_repo[1])

AbsolutePaths ==
    {str.slash, str.w, str.srv, p_utils_abs, str.slash \o p_utils_rel,
     str.srv \o str.slash \o str.utils}

\* C10: for every base, resolveWorkDir returns an absolute repo_path (one
\* that starts with "/") unchanged.
C10_AbsoluteUnchanged ==
    /\ \A base \in Bases : \A p \in AbsolutePaths :
          resolveWorkDir(base, Some(p)) = p
    /\ (/\ ~Idle
        /\ Truthy(lastCall.repo_path)
        /\ lastCall.repo_path[1][1] = "/")
           => lastCall.cwd = lastCall.repo_path[1]

C10_Witness ==
    /\ ~Idle
    /\ lastCall.repo_path = Some(p_utils_abs)
    /\ lastCall.cwd = p_utils_abs
    /\ IsRepo(lastCall.cwd)

\* A name without a path separator.
IsBare(n) == \A i \in 1..Len(n) : n[i] # "/"

\* A name that begins with the name of the workspace folder.
HasWorkspacePrefix(n) ==
    /\ Len(n) >= Len(str.issues_workspace)
    /\ SubSeq(n, 1, Len(str.issues_workspace)) = str.issues_workspace

UnderWorkspace(base, n) ==
    base \o <<"/">> \o str.issues_workspace \o <<"/">> \o n

BareNames ==
    {<<>>, str.utils, str.x, str.repo, str.bob_github_io, str.dotgit,
     str.issues_workspace, str.issues_workspace_tools}

C12_ReturnedPathResolvesToFullPath ==
    /\ (lastCall.tool = "git_clone" /\ lastCall.result.isJson)
          => resolveWorkDir(workingDirectory,
                            Some(lastCall.result.obj.repo_path))
               = lastCall.result.obj.full_path
    /\ \A c \in cloned :
          (lastCall.tool \in GitTools /\ lastCall.repo_path = Some(c.repo_path))
             => lastCall.cwd = c.full_path

\* The text after the last "/" of a URL.
FinalSegment(url) ==
    LET starts == {i \in 1..(Len(url) + 1) :
                      /\ i = 1 \/ url[i - 1] = "/"
                      /\ \A j \in i..Len(url) : url[j] # "/"}
    IN  SubSeq(url, CHOOSE i \in starts : TRUE, Len(url))

\* A name without its ".git" ending, when it has one.
WithoutGitSuffix(name) ==
    IF /\ Len(name) >= 4
       /\ SubSeq(name, Len(name) - 3, Len(name)) = <<".", "g", "i", "t">>
    THEN SubSeq(name, 1, Len(name) - 4)
    ELSE name

\* C13: the directory name of a clone is the directory override when one is
\* given, and otherwise the final path segment of the URL with a trailing
\* ".git" removed and the rest of the segment kept as it is.
C13_CloneDirectoryName ==
    lastCall.tool = "git_clone" =>
        LET name == IF lastCall.args.directory # None
                    THEN lastCall.args.directory[1]
                    ELSE WithoutGitSuffix(FinalSegment(lastCall.args.repo_url))
            target == UnderWorkspace(workingDirectory, name)
        IN  /\ \A i \in 1..Len(lastCall.cmds) :
                  lastCall.cmds[i].cmd[1] = word.git
                     => lastCall.cmds[i].cmd
                          = <<word.git, word.clone, lastCall.args.repo_url,
                              target>>
            /\ lastCall.result.isJson
                  => /\ lastCall.result.obj.repo_path = name
                     /\ lastCall.result.obj.full_path = target

\* The command line of the fallback checkout, which creates the branch from
\* its remote counterpart.
TrackingCheckout(branch) ==
    <<word.git, word.checkout, word.b, branch,
      word.origin \o <<"/">> \o branch>>

RanTrackingCheckout(c, branch) ==
    \E i \in 1..Len(c.cmds) : c.cmds[i].cmd = TrackingCheckout(branch)

\* C14: git_checkout runs the fallback `git checkout -b <branch>
\* origin/<branch>` only when the initial checkout fails with a stderr that
\* holds "did not match any"; after every other failure of the initial
\* checkout it runs no fallback and returns the initial checkout's error
\* text.
C14_FallbackOnlyForUnknownRef ==
    [][(Idle /\ lastCall'.tool = "git_checkout") =>
       \A outcome \in CheckoutOutcomes :
          gitCheckout(lastCall'.args.branch_name, lastCall'.repo_path,
                      lastCall'.expected_repo, outcome)
             => LET cwd == resolveWorkDir(workingDirectory, lastCall'.repo_path)
                    first == proc_checkout(cwd, outcome)
                    failed == first.thrown \/ first.code # 0
                    unknownRef ==
                        failed /\ Contains(first.stderr, str.did_not_match_any)
                IN  \/ lastCall'.verification.failed
                    \/ /\ RanTrackingCheckout(lastCall',
                                               lastCall'.args.branch_name)
                            <=> unknownRef
                       /\ (failed /\ ~unknownRef)
                            => lastCall'.result
                                 = Text(msg.Error \o first.stderr)]_vars

C14_Witness ==
    /\ lastCall.tool = "git_checkout"
    /\ RanTrackingCheckout(lastCall, lastCall.args.branch_name)
    /\ lastCall.result = Text(msg.switched \o lastCall.args.branch_name)

\* The markers in the order of the detection, and the command of each.
MarkerOrder ==
    <<marker.package_json, marker.deno_json, marker.cargo_toml,
      marker.go_mod, marker.pytest_ini, marker.setup_py>>

MarkerCommand ==
    <<testcmd.npm, testcmd.deno, testcmd.cargo, testcmd.go, testcmd.pytest,
      testcmd.python>>

MarkerProbes(cwd, k) ==
    [i \in 1..k |-> Argv(<<word.test, word.f, MarkerOrder[i]>>, cwd)]

\* C15: run_tests without a test_command probes package.json, deno.json,
\* Cargo.toml, go.mod, pytest.ini and setup.py in that order, runs the
\* command of the first marker that exists and probes no later marker; when
\* no marker exists it returns the "No test command found" text and runs no
\* test command.
C15_FirstMarkerWins ==
    (lastCall.tool = "run_tests" /\ lastCall.args.test_command = None) =>
        LET cwd == lastCall.cwd
            present == IF cwd \in dirs THEN FilesIn(cwd) ELSE {}
            hits == {i \in 1..6 : MarkerOrder[i] \in present}
            first == CHOOSE i \in hits : \A j \in hits : i <= j
        IN  IF hits = {}
            THEN /\ lastCall.cmds = MarkerProbes(cwd, 6)
                 /\ lastCall.result = Text(msg.no_test)
            ELSE /\ lastCall.cmds
                      = MarkerProbes(cwd, first)
                        \o <<Argv(<<word.sh, word.c, MarkerCommand[first]>>,
                                  cwd)>>
                 /\ lastCall.result.isJson
                 /\ lastCall.result.obj.test_command = MarkerCommand[first]

C15_Witness ==
    /\ lastCall.tool = "run_tests"
    /\ lastCall.args.test_command = None
    /\ marker.go_mod \in FilesIn(lastCall.cwd)
    /\ Len(lastCall.cmds) = 3
    /\ lastCall.result.isJson
    /\ lastCall.result.obj.test_command = testcmd.deno

\* The commands the environment can answer in the current state, with every
\* way they can end: exit 0, a non-zero exit, a failed spawn.
Processes ==
    UNION {{proc_remote_get_url(d), proc_branch_show_current(d),
            proc_status_porcelain(d)}
           \cup {proc_checkout(d, o) : o \in CheckoutOutcomes}
           \cup {proc_push(d, net) : net \in BOOLEAN} : d \in WorkDirs}

\* C16: runCommand never raises: it always returns a result, whose success
\* is true exactly when the command exited with status zero; a spawn that
\* fails yields success = false with the error text in stderr.
C16_ExecutorAlwaysReturns ==
    /\ \A p \in Processes :
          LET r == runCommand(p)
          IN  /\ DOMAIN r = {"success", "stdout", "stderr"}
              /\ r.success <=> (~p.thrown /\ p.code = 0)
              /\ p.thrown => (~r.success /\ r.stderr = p.stderr)
    /\ (lastCall.tool = "git_status" /\ ~lastCall.verification.ran)
          => LET p == proc_status_porcelain(lastCall.cwd)
             IN  /\ lastCall.result.isJson <=> (~p.thrown /\ p.code = 0)
                 /\ p.thrown => lastCall.result = Text(msg.Error \o p.stderr)

C16_Witness ==
    /\ lastCall.tool = "git_status"
    /\ ~lastCall.verification.ran
    /\ lastCall.cwd \notin dirs
    /\ lastCall.result = Text(msg.Error \o errtext.not_found)

\* A number text without its leading zeros.
RECURSIVE Canonical(_)
Canonical(n) ==
    IF Len(n) > 1 /\ n[1] = "0" THEN Canonical(Tail(n)) ELSE n

IssueEndpoint(owner, repo, n) ==
    gh.api \o gh.repos \o owner \o <<"/">> \o repo \o gh.issues \o Canonical(n)

\* C17: for every owner, repo and number n, parsing the full URL
\* https://github.com/{owner}/{repo}/issues/{n} and parsing the shorthand
\* {owner}/{repo}#{n} yield the same (owner, repo, number) triple.
C17_UrlAndShorthandAgree ==
    /\ \A o \in Owners : \A r \in RepoNames : \A n \in Numbers :
          LET full == parseIssueUrl(IssueUrlOf(o, r, n))
              short == parseIssueUrl(ShortOf(o, r, n))
          IN  /\ ~full.thrown /\ ~short.thrown
              /\ full.owner = o /\ short.owner = o
              /\ full.repo = r /\ short.repo = r
              /\ full.number = short.number
    /\ lastCall.tool = "fetch_github_issue" =>
          \A o \in Owners : \A r \in RepoNames : \A n \in Numbers :
             lastCall.args.issue_url \in {IssueUrlOf(o, r, n), ShortOf(o, r, n)}
                => /\ lastCall.cmds # <<>>
                   /\ lastCall.cmds[1].cmd = <<gh.GET, IssueEndpoint(o, r, n)>>

C17_Witness ==
    /\ lastCall.tool = "fetch_github_issue"
    /\ lastCall.args.issue_url = ShortOf(ref.a_b, ref.my_repo, ref.n007)
    /\ lastCall.result.isJson
    /\ lastCall.result.obj.repository.owner = ref.a_b
    /\ lastCall.result.obj.repository.repo = ref.my_repo
    /\ lastCall.cmds[1].cmd
         = <<gh.GET, IssueEndpoint(ref.a_b, ref.my_repo, ref.n7)>>

\* The text holds lit at position i.
HasAt(text, i, lit) ==
    /\ i + Len(lit) - 1 <= Len(text)
    /\ \A k \in 1..Len(lit) : text[i + k - 1] = lit[k]

\* A text that holds github.com/{owner}/{repo}<kind>{n}: owner and repo are
\* not empty and hold no "/", n begins with a digit.
HoldsUrlForm(text, kind) ==
    \E a \in 1..Len(text) :
        /\ HasAt(text, a, gh.host)
        /\ \E b \in (a + Len(gh.host) + 1)..Len(text) :
              /\ text[b] = "/"
              /\ \A k \in (a + Len(gh.host))..(b - 1) : text[k] # "/"
              /\ \E c \in (b + 2)..Len(text) :
                    /\ HasAt(text, c, kind)
                    /\ \A k \in (b + 1)..(c - 1) : text[k] # "/"
                    /\ c + Len(kind) <= Len(text)
                    /\ IsDigit(text[c + Len(kind)])

\* A text that is {owner}/{repo}#{n}: owner is not empty and holds no "/",
\* repo is not empty and holds no "#", n is one or more digits.
IsShorthand(text) ==
    \E b \in 2..Len(text) :
        /\ text[b] = "/"
        /\ \A k \in 1..(b - 1) : text[k] # "/"
        /\ \E c \in (b + 2)..(Len(text) - 1) :
              /\ text[c] = "#"
              /\ \A k \in (b + 1)..(c - 1) : text[k] # "#"
              /\ \A k \in (c + 1)..Len(text) : IsDigit(text[k])

RejectedReference(c) ==
    /\ c.cmds = <<>>
    /\ ~c.result.isJson

RequestFailed(response) == response.rejected \/ ~response.ok

\* C19: when the issue request of fetch_github_issue succeeds and the
\* comments request fails, the tool returns the issue result with an empty
\* comments list, not an error for the whole call.
C19_FailedCommentsGiveEmptyList ==
    [][(Idle /\ lastCall'.tool = "fetch_github_issue") =>
       \A issueResponse \in IssueResponses :
       \A commentsResponse \in CommentsResponses :
          (/\ fetchIssue(lastCall'.args.issue_url, issueResponse,
                         commentsResponse)
           /\ Len(lastCall'.cmds) = 2
           /\ ~RequestFailed(issueResponse)
           /\ RequestFailed(commentsResponse))
             => /\ lastCall'.result.isJson
                /\ lastCall'.result.obj.number = issueResponse.json.number
                /\ lastCall'.result.obj.comments = <<>>]_vars

\* C20 as stated: create_pull_request issues exactly one POST per
\* invocation, and for a response that is not 2xx its result is the raw
\* text of the response body, unmodified.
C20_ErrorIsRawBody ==
    [][(Idle /\ lastCall'.tool = "create_pull_request") =>
       \A response \in CreateResponses :
          (/\ createPullRequest(lastCall'.args, response)
           /\ ~response.rejected
           /\ ~response.ok)
             => /\ Len(lastCall'.cmds) = 1
                /\ lastCall'.cmds[1].cmd[1] = gh.POST
                /\ lastCall'.result = Text(response.text)]_vars

\* C20: create_pull_request issues exactly one POST per invocation, and for
\* a response that is not 2xx its result is "Error creating PR: " followed
\* by the raw text of the response body, unmodified and not parsed.
C20_ErrorIsPrefixedRawBody ==
    [][(Idle /\ lastCall'.tool = "create_pull_request") =>
       /\ Len(lastCall'.cmds) = 1
       /\ lastCall'.cmds[1].cmd
            = <<gh.POST,
                gh.api \o gh.repos \o lastCall'.args.owner \o <<"/">>
                  \o lastCall'.args.repo \o gh.pulls>>
       /\ \A response \in CreateResponses :
             (/\ createPullRequest(lastCall'.args, response)
              /\ ~response.rejected
              /\ ~response.ok)
                => lastCall'.result
                     = Text(msg.error_creating_pr \o response.text)]_vars

C20_Witness ==
    /\ lastCall.tool = "create_pull_request"
    /\ Len(lastCall.cmds) = 1
    /\ lastCall.result = Text(msg.error_creating_pr \o bodytext.validation)

\* The git subcommand each git tool runs first once it is past the
\* verification.
FirstSubcommand ==
    [git_status |-> word.status, git_checkout |-> word.fetch,
     git_create_branch |-> word.checkout, git_add |-> word.add,
     git_commit |-> word.commit, git_push |-> word.branch]

\* C21: a git tool called without expected_repo skips the verification: it
\* runs no `git remote get-url origin` and goes on to its own first command,
\* whatever the origin of the working directory is.
C21_NoExpectedRepoNoVerification ==
    (lastCall.tool \in GitTools /\ lastCall.expected_repo = None) =>
        /\ ~lastCall.verification.ran
        /\ ~Ran(lastCall.cmds, word.remote)
        /\ lastCall.cmds # <<>>
        /\ lastCall.cmds[1].cwd = lastCall.cwd
        /\ lastCall.cmds[1].cmd[1] = word.git
        /\ lastCall.cmds[1].cmd[2] = FirstSubcommand[lastCall.tool]

C21_Witness ==
    /\ lastCall.tool = "git_commit"
    /\ lastCall.expected_repo = None
    /\ IsRepo(lastCall.cwd)
    /\ repos[lastCall.cwd].origin = str.url_alice
    /\ ~IsError(lastCall.result)
    /\ lastCall.cmds[1].cmd[2] = word.commit

\* The invocation ended in a rejection by the safety policy.
PolicyRejection(c) ==
    \/ c.tool = "run_shell" /\ c.result = Text(msg.not_allowed)
    \/ c.tool = "git_push" /\ ~c.result.isJson
         /\ Contains(c.result.text, msg.cannot_push)

\* C22 as stated: an invocation that ends in a policy rejection (protected
\* branch in git_push, dangerous substring in run_shell) has spawned no
\* external process and made no network call.
C22_RejectionBeforeAnyCall ==
    PolicyRejection(lastCall) => lastCall.cmds = <<>>

\* C22: a run_shell invocation that ends in the dangerous-command rejection
\* has spawned no process.  A git_push invocation that ends in the
\* protected-branch rejection has spawned the local queries only, `git
\* remote get-url origin` when expected_repo is given and then `git branch
\* --show-current`: it has run no `git push` and made no network call.
C22_RejectionBeforeTheOperation ==
    PolicyRejection(lastCall) =>
        /\ lastCall.tool = "run_shell" => lastCall.cmds = <<>>
        /\ lastCall.tool = "git_push" =>
              lastCall.cmds
                = (IF Truthy(lastCall.expected_repo)
                   THEN OriginQuery(lastCall.cwd) ELSE <<>>)
                  \o <<Argv(<<word.git, word.branch, word.show_current>>,
                            lastCall.cwd)>>
        /\ lastCall.pushedTo = None
        /\ ~lastCall.changed

C22_Witness ==
    /\ lastCall.tool = "git_push"
    /\ PolicyRejection(lastCall)
    /\ Truthy(lastCall.expected_repo)
    /\ Len(lastCall.cmds) = 2

\* C23: git_status issues the porcelain query and the branch query together
\* and combines them once both have completed: the result is the same for
\* either completion order, branch comes from the branch query and changes
\* from the porcelain query, and clean is true exactly when the parsed
\* change list is empty.
C23_StatusOrderIndependent ==
    [][(Idle /\ lastCall'.tool = "git_status") =>
       /\ \A order \in CompletionOrders :
             gitStatus(lastCall'.repo_path, lastCall'.expected_repo, order)
       /\ ~lastCall'.verification.failed =>
             /\ Len(lastCall'.cmds) >= 2
             /\ SubSeq(lastCall'.cmds, Len(lastCall'.cmds) - 1,
                       Len(lastCall'.cmds))
                  = <<Argv(<<word.git, word.status, word.porcelain>>,
                           lastCall'.cwd),
                      Argv(<<word.git, word.branch, word.show_current>>,
                           lastCall'.cwd)>>
       /\ lastCall'.result.isJson =>
             /\ lastCall'.result.obj.branch = repos[lastCall'.cwd].branch
             /\ lastCall'.result.obj.clean
                   <=> lastCall'.result.obj.changes = <<>>
             /\ lastCall'.result.obj.clean
                   <=> ~repos[lastCall'.cwd].staged]_vars

C23_Witness ==
    /\ lastCall.tool = "git_status"
    /\ lastCall.result.isJson
    /\ ~lastCall.result.obj.clean
    /\ Len(lastCall.result.obj.changes) = 1
    /\ lastCall.result.obj.branch = str.feature

LocalBranchTools ==
    {"git_create_branch", "git_checkout", "git_add", "git_commit"}

\* The standard-error texts of a failed command: one of git's messages, or
\* nothing (git commit reports "nothing to commit" on standard output).
CommandErrors == {errtext[k] : k \in DOMAIN errtext} \cup {<<>>}

\* C25: the protected-branch check belongs to git_push alone:
\* git_create_branch, git_checkout, git_add and git_commit never reject an
\* operation because the branch given or checked out is main, master,
\* develop or production; past the verification they run their git command
\* and fail only with the error of that command.
C25_ProtectedCheckOnlyAtPush ==
    (lastCall.tool \in LocalBranchTools /\ ~lastCall.verification.failed) =>
        /\ ~lastCall.result.isJson
        /\ ~Contains(lastCall.result.text, msg.cannot_push)
        /\ Ran(lastCall.cmds,
               IF lastCall.tool = "git_add" THEN word.add
               ELSE IF lastCall.tool = "git_commit" THEN word.commit
               ELSE word.checkout)
        /\ IsError(lastCall.result)
              => \E e \in CommandErrors : lastCall.result.text = msg.Error \o e

C25_Witness ==
    /\ lastCall.tool = "git_create_branch"
    /\ lastCall.args.branch_name = str.main
    /\ IsProtected(lastCall.args.branch_name)
    /\ Ran(lastCall.cmds, word.checkout)
    /\ lastCall.result = Text(msg.created \o str.main)
    /\ repos[lastCall.cwd].branch = str.main

\* What run_tests does with a command it was given: the one command it
\* spawns is `sh -c <command>` in the working directory, and the report is
\* the JSON object naming that command.
ExecutedAsGiven(c) ==
    /\ c.cmds = <<Argv(<<word.sh, word.c, c.args.test_command[1]>>, c.cwd)>>
    /\ c.result.isJson
    /\ c.result.obj.test_command = c.args.test_command[1]

\* C26 as stated: run_tests executes an explicit test_command through
\* `sh -c` for every command string, the ones run_shell rejects included.
C26_EveryExplicitCommandExecuted ==
    (lastCall.tool = "run_tests" /\ lastCall.args.test_command # None) =>
        ExecutedAsGiven(lastCall)

\* C26: run_tests applies no dangerous-command check: every non-empty
\* test_command is executed through `sh -c`, the ones run_shell rejects
\* included, while an empty test_command counts as none given and the
\* command is detected from the marker files.
C26_NonEmptyCommandExecuted ==
    lastCall.tool = "run_tests" =>
        /\ ~(lastCall.result = Text(msg.not_allowed))
        /\ Truthy(lastCall.args.test_command) => ExecutedAsGiven(lastCall)
        /\ lastCall.args.test_command = Some(<<>>) =>
              \A i \in 1..Len(lastCall.cmds) :
                  lastCall.cmds[i].cmd # <<word.sh, word.c, <<>>>>

C26_Witness ==
    /\ lastCall.tool = "run_tests"
    /\ lastCall.args.test_command = Some(shcmd.sudo_ls)
    /\ HasDangerousSubstring(lastCall.args.test_command[1])
    /\ IsDangerous(lastCall.args.test_command[1])
    /\ ExecutedAsGiven(lastCall)

\* The current-branch query of a git_push in cwd gives no branch name: the
\* command cannot be spawned or fails (cwd is no repository), or it prints
\* nothing (detached HEAD).
NoBranchName(cwd) == ~IsRepo(cwd) \/ repos[cwd].branch = <<>>

\* The push command of git_push for the empty branch name.
PushOfNoBranch(c) ==
    Argv(<<word.git, word.push>>
         \o (IF c.args.set_upstream THEN <<word.u, word.origin, <<>>>>
             ELSE <<>>), c.cwd)

\* C27: git_push does not check the current-branch query: when
\* `git branch --show-current` fails or prints nothing, the branch name is
\* the empty string, the protected-branch check lets it pass, and the
\* `git push` command is executed right after the query, with the empty
\* name as its refspec when set_upstream is on.
C27_PushWithoutBranchName ==
    (/\ lastCall.tool = "git_push"
     /\ ~lastCall.verification.failed
     /\ NoBranchName(lastCall.cwd)) =>
        LET n == Len(lastCall.cmds)
        IN  /\ n >= 2
            /\ lastCall.cmds[n - 1]
                 = Argv(<<word.git, word.branch, word.show_current>>,
                        lastCall.cwd)
            /\ lastCall.cmds[n] = PushOfNoBranch(lastCall)
            /\ ~Contains(lastCall.result.text, msg.cannot_push)
            /\ ~IsProtected(<<>>)

C27_Witness ==
    /\ lastCall.tool = "git_push"
    /\ IsRepo(lastCall.cwd)
    /\ repos[lastCall.cwd].branch = <<>>
    /\ lastCall.args.set_upstream
    /\ Len(lastCall.cmds) >= 2
    /\ lastCall.cmds[Len(lastCall.cmds)] = PushOfNoBranch(lastCall)
    /\ lastCall.result = Text(msg.Error \o errtext.detached)

=============================================================================
